---- MODULE Spec2Model ----
(***************************************************************************)
(* The cross-chain ARIO top-up bot (index.js, src/kyberswap.js,            *)
(* src/baseBridge.js, src/bridgeVerifier.js) as a state machine.           *)
(*                                                                         *)
(* One top-up cycle (performTopUp) is a chain of steps, one per group of   *)
(* awaited calls; the bridge (an independent relayer) and the passing of   *)
(* time act between the steps.  Amounts of ARIO are whole tokens, amounts  *)
(* of USDC are hundredths of a USDC (so that the 2% buffer of              *)
(* calculateUsdcNeeded is exact), Credit-Notice quantities are mARIO.      *)
(* Every call the cycle makes on the outside world is appended to          *)
(* `events`, the record the properties are stated on.                      *)
(***************************************************************************)
EXTENDS Integers, Sequences, FiniteSets

\* ------------------------------------------------------------------ bounds

\* Largest ARIO balance a wallet holds in an initial state.
MaxBalance == 2

\* Largest latency of one index query (ms) in the stand-alone runs of
\* waitForBridgeCredit.
MaxLatency == 1

\* Number of cycles (calls of performTopUp) in a run.
MaxCycles == 2

\* Number of external calls (AO, the Base RPC, the aggregator, the index, the
\* ledger file) that fail in a run.
MaxFaults == 1

\* Number of poll intervals in the maxWaitMs a cycle passes to
\* waitForBridgeCredit (thirty in index.js).
MaxPolls == 2

\* Number of cron triggers in a run of main.
MaxTriggers == 2

\* Number of calls of sendMessageToSlack in a run of the notification
\* module on its own.
MaxSends == 2

\* Largest amount converted to smallest units on its own, in tenths of a
\* millionth of a token.
MaxSubUnits == 25

\* Most Credit-Notices of interest in the index when verifyBridgeCredit is
\* called on its own (older notices of other amounts may precede them).
MaxEdges == 2

\* Largest reserve a Permaswap pool reports, in thousands of tokens.
MaxReserve == 3

\* Largest maxWaitMs of a stand-alone run of waitForBridgeCredit.
MaxWaitBound == 5

\* Largest pollIntervalMs of a stand-alone run of waitForBridgeCredit.
MaxPollBound == 3

\* -------------------------------------------------------- program constants

\* index.js:70  MAX_SLIPPAGE default, percent.
DefaultMaxSlippage == 20

\* index.js:384 and 625: pollIntervalMs: 60 * 1000.
CyclePollIntervalMs == 60000

\* index.js:383 and 624: maxWaitMs: 30 * 60 * 1000, thirty poll intervals.
\* The model bounds the number of intervals of a cycle's wait by MaxPolls.
CycleMaxWaitMs == MaxPolls * CyclePollIntervalMs

\* bridgeVerifier.js:57  expectedAmount * 1e6 (mARIO per ARIO).
MarioPerArio == 1000000

\* baseBridge.js:43  this.arioDecimals = 6
ArioBaseDecimals == 6

\* bridgeVerifier.js:54  tolerancePercent = 1.
TolerancePercent == 1

\* bridgeVerifier.js:54  maxAgeMinutes = 30.
MaxAgeMinutes == 30

\* permaswap.js:76-77 and 112-113  the reserves getPrice has built in
\* ('25922987718' wUSDC and '1465945229537' ARIO in smallest units), in
\* thousands of tokens.
MockReserveX == 25
MockReserveY == 1465

\* permaswap.js:306  the 0.3% fee: expectedOut.multipliedBy(0.997), in
\* thousandths.
FeeKeptPerMille == 997

\* bridgeVerifier.js:71  first: 10.
IndexPageSize == 10

\* kyberswap.js:345  adjustedUsdc = target * effectivePrice * 1.02, in percent.
UsdcBufferPercent == 102

\* ----------------------------------------------------------------- helpers

Min(a, b) == IF a <= b THEN a ELSE b

Max(a, b) == IF a >= b THEN a ELSE b

\* One call on the outside world, as the properties see it.
\*   op     what was called        kind   which one
\*   amount the amount submitted   observed  the balance it was sized from
\*   need   the remaining need at that moment
\*   ok     whether the call succeeded (a receipt with status 1, a reply)
\* For the build of the swap transaction, observed and need hold the price
\* impact and the output of the route that is encoded.
Ev(op, kind, amount, observed, need, ok) ==
  [op |-> op, kind |-> kind, amount |-> amount, observed |-> observed,
   need |-> need, ok |-> ok]

Call(op, kind) == Ev(op, kind, 0, 0, 0, TRUE)

FailedCall(op, kind) == Ev(op, kind, 0, 0, 0, FALSE)

\* Append to a sequence of events.
Log(evs, e) == Append(evs, e)

\* ------------------------------------------- faulty variants of decisions
\* Each of these replaces one decision of the code by a plausible wrong one;
\* a property that is meant to depend on the decision fails under it.

\* The sufficiency check with > for >=.
BalanceSufficientStrict(currentBalance, minBalance) == currentBalance > minBalance

\* The minimum-transfer check turned around.
BelowMinTransferFlipped(amountNeeded, minTransferAmount) == amountNeeded > minTransferAmount

\* performTopUp without its price-impact check.
TopUpGateOff(priceImpact, maxSlippage) == FALSE

\* executeSwap without its price-impact check.
SwapGateOff(priceImpact, maxSlippage) == FALSE

\* burnToAO ignoring its dryRun argument.
burnDryRunIgnored(dryRun) == FALSE

\* The loop test of waitForBridgeCredit with <= for <.
WaitContinuesInclusive(elapsedMs, maxWait) == elapsedMs <= maxWait

\* The failed balance read after the swap reaching the catch of the cycle.
BalanceCheckRethrown(evs) == Log(evs, Call("slack", "topup_failed"))

\* The balance parsed without the '0' that stands in for missing data:
\* parseFloat(undefined).
BalanceDataUnparsed(data) == IF data = 0 - 1 THEN 0 - 1000 ELSE data

\* The catch of the recovery transfer ending the cycle.
TransferCaughtAborts(remaining) == "done"

\* The catch of the recovery transfer trying the transfer again.
TransferCaughtRetries(remaining) == "recovery_transfer"

\* The post-swap balance taken from the quote in live mode as well.
PostSwapBalanceQuoted(dryRun, expectedAmountOut, balanceFormatted) == expectedAmountOut

\* The age test of verifyBridgeCredit asking for a block timestamp.
TooOldOrUndated(blockTimestamp, now, maxAge) ==
  blockTimestamp = 0 \/ now - blockTimestamp > maxAge

\* executeSwap working from the quote calculateUsdcNeeded obtained.
SwapRouteFromCalc(own, calc) == calc

\* ensureAllowance without its test of the current allowance.
AllowanceNeverSufficient(currentAllowance, amountNeeded) == FALSE

\* The loop of waitForBridgeCredit without its ceiling.
WaitContinuesForever(elapsedMs, maxWait) == TRUE

\* The catch of the post-swap burn without its notification.
BurnFailureSilent(evs) == evs

\* main goes on after a failed validation.
MainExitsNever(valid) == FALSE

\* The schedule is registered without awaiting the startup cycle.
ScheduleNoAwait(startupReturned) == TRUE

\* A trigger is dropped while a cycle is in progress.
TriggerStartsWhenIdle(running) == running = 0

\* getSwapRoute taking whatever the aggregator answers for a route.
getSwapRouteNeverThrows(responseOk, code, hasRouteSummary) == FALSE

\* A conversion to smallest units that rounds up.
JsCeil(num, den) == (num + den - 1) \div den

\* executeSwap returning the result of a swap whatever its receipt says.
SwapConfirmedAlways(status) == TRUE

\* burnToAO returning the hash of a burn whatever its receipt says.
BurnConfirmedAlways(status) == TRUE

\* burnToAO without the comparison of the balance it has read.
BalanceCoversAlways(balance, amount) == TRUE

\* sendMessageToSlack logging a failed post and throwing it again.
sendMessageToSlackRethrows(web, postOk) ==
  [posted |-> web /\ postOk, logged |-> web /\ ~postOk, threw |-> web /\ ~postOk]

\* --------------------------------------------------- decisions of the code

\* index.js:55, 64, 67-71: parseInt and parseFloat give NaN for a setting
\* that is not a number.  NaN is a value of its own here; every comparison
\* with it is false, as in JavaScript.
NaN == 0 - 1000

IsNaN(x) == x = NaN

JsLt(a, b) == ~IsNaN(a) /\ ~IsNaN(b) /\ a < b

JsLe(a, b) == ~IsNaN(a) /\ ~IsNaN(b) /\ a <= b

JsGt(a, b) == ~IsNaN(a) /\ ~IsNaN(b) /\ a > b

\* validateConfig (src/baseBridge.js 302-382, the validator of the
\* cross-chain edition; src/validator.js 3-80 has the same rules on these
\* settings): the errors it collects, one per violated rule.  The settings
\* it checks as strings (process id, private key, URL, contract addresses)
\* are taken as well-formed; cronFields is the number of fields of
\* cronSchedule.trim().split(/\s+/).
ValidationErrors(c) ==
  {e \in {"TARGET_WALLET_ADDRESS", "TARGET_TOKEN_DECIMALS", "MIN_BALANCE",
          "TARGET_BALANCE", "TARGET_GE_MIN", "MAX_SLIPPAGE",
          "MIN_TRANSFER_AMOUNT", "CRON_SCHEDULE"} :
     CASE e = "TARGET_WALLET_ADDRESS" -> ~c.targetWalletAddress
       [] e = "TARGET_TOKEN_DECIMALS" ->
            IsNaN(c.decimals) \/ JsLt(c.decimals, 0) \/ JsGt(c.decimals, 18)
       [] e = "MIN_BALANCE" -> JsLe(c.minBalance, 0)
       [] e = "TARGET_BALANCE" -> JsLe(c.targetBalance, 0)
       [] e = "TARGET_GE_MIN" -> JsLt(c.targetBalance, c.minBalance)
       [] e = "MAX_SLIPPAGE" -> JsLe(c.maxSlippage, 0) \/ JsGt(c.maxSlippage, 100)
       [] e = "MIN_TRANSFER_AMOUNT" -> JsLt(c.minTransferAmount, 0)
       [] e = "CRON_SCHEDULE" -> c.cronFields < 5 \/ c.cronFields > 6}

\* src/baseBridge.js 384-392: false when an error was collected.
validateConfig(c) == ValidationErrors(c) = {}

\* index.js:275  if (currentBalance >= config.minBalance) return;
BalanceSufficient(currentBalance, minBalance) == currentBalance >= minBalance

\* index.js:281  const amountNeeded = config.targetBalance - currentBalance;
AmountNeeded(targetBalance, currentBalance) == targetBalance - currentBalance

\* index.js:288  if (amountNeeded < config.minTransferAmount) return;
BelowMinTransfer(amountNeeded, minTransferAmount) == amountNeeded < minTransferAmount

\* index.js:302  Math.min(botAoBalance.balance, amountNeeded)
RecoveryTransferAmount(botBalance, amountNeeded) == Min(botBalance, amountNeeded)

\* index.js:358  the recovery burn burns baseBalances.ario.balanceFormatted
RecoveryBurnAmount(baseArioBalance, remaining) == baseArioBalance

\* index.js:402  Math.max(0, remainingNeeded - baseBalances.ario.balanceFormatted)
RemainingAfterRecoveryBurn(remaining, burned) == Max(0, remaining - burned)

\* index.js:450  if (swapCalc.priceImpact > config.maxSlippage)
TopUpGate(priceImpact, maxSlippage) == priceImpact > maxSlippage

\* index.js:469  if (baseBalances.usdc.balanceFormatted < swapCalc.usdcNeeded)
InsufficientUsdc(usdcBalance, usdcNeeded) == usdcBalance < usdcNeeded

\* The USDC check made before the price-impact check.
CalcVerdictFundsFirst(priceImpact, maxSlippage, usdcBalance, usdcNeeded) ==
  IF InsufficientUsdc(usdcBalance, usdcNeeded) THEN "insufficient_usdc"
  ELSE IF TopUpGate(priceImpact, maxSlippage) THEN "high_price_impact"
  ELSE "proceed"

\* index.js:449-488  the two checks that follow the quote, in the order of
\* the code: the price impact first, the USDC balance second; the alert of
\* the first check that fails, or the go-ahead for the swap.
CalcVerdict(priceImpact, maxSlippage, usdcBalance, usdcNeeded) ==
  IF TopUpGate(priceImpact, maxSlippage) THEN "high_price_impact"
  ELSE IF InsufficientUsdc(usdcBalance, usdcNeeded) THEN "insufficient_usdc"
  ELSE "proceed"

\* The alert of a failed check not followed by a return.
AbortFallsThrough == "swap"

\* index.js:465, 487  return; after the alert of a failed check.
AbortReturn == "done"

\* index.js:532-535  the ARIO on Base after the swap: the balance read from
\* the chain, and in dry-run the quoted output in its place.
PostSwapBalance(dryRun, expectedAmountOut, balanceFormatted) ==
  IF dryRun THEN expectedAmountOut ELSE balanceFormatted

\* index.js:550  Math.min(postSwapArioBalance, remainingNeeded)
PostSwapBurnAmount(postSwapArioBalance, remaining) == Min(postSwapArioBalance, remaining)

\* kyberswap.js:225  if (route.priceImpact > maxSlippage)
SwapGate(priceImpact, maxSlippage) == priceImpact > maxSlippage

\* kyberswap.js:345  targetArioAmount * route.effectivePrice * 1.02, in
\* hundredths of a USDC for a price in whole USDC per ARIO.
UsdcNeeded(targetArioAmount, effectivePrice) ==
  targetArioAmount * effectivePrice * UsdcBufferPercent

\* kyberswap.js:183  currentAllowance >= BigInt(amountNeeded)
AllowanceSufficient(currentAllowance, amountNeeded) == currentAllowance >= amountNeeded

\* index.js:188, baseBridge.js:214, kyberswap.js:237: the dry-run returns,
\* taken before anything is submitted.
transferDryRunReturn(dryRun) == dryRun

burnDryRunReturn(dryRun) == dryRun

swapDryRunReturn(dryRun) == dryRun

\* index.js:352  a recovery burn is only logged in dry-run.
recoveryBurnDryRun(dryRun) == dryRun

\* index.js:504 and 578: if (!config.dryRun && csvLogger)
LedgerEnabled(dryRun) == ~dryRun

\* Math.floor of the quotient num / den of two non-negative integers
\* (index.js:207, baseBridge.js:206).
JsFloor(num, den) == num \div den

RECURSIVE Pow10(_)
Pow10(n) == IF n = 0 THEN 1 ELSE 10 * Pow10(n - 1)

\* An amount of tokens is a number of sub-units, SubUnitDigits decimal digits
\* after the point: one digit more than ARIO has.
SubUnitDigits == ArioBaseDecimals + 1

\* index.js:207  Math.floor(amount * Math.pow(10, config.targetToken.decimals))
TransferQuantity(subUnits, decimals) ==
  JsFloor(subUnits * Pow10(decimals), Pow10(SubUnitDigits))

\* baseBridge.js:206-208  Math.floor(amount * 1e6) / 1e6, written out in
\* decimal and parsed with arioDecimals digits: the digits kept are exactly
\* the smallest units.
BurnQuantity(subUnits) ==
  JsFloor(subUnits * MarioPerArio, Pow10(SubUnitDigits)) * Pow10(ArioBaseDecimals - 6)

\* kyberswap.js:70-79  getSwapRoute throws on a response that is not OK, on
\* a code other than 0 and on a body without routeSummary.
getSwapRouteThrows(responseOk, code, hasRouteSummary) ==
  ~responseOk \/ code # 0 \/ ~hasRouteSummary

\* What the aggregator can answer (kyberswap.js:63-76).
RouteResponses == [ok : BOOLEAN, code : {0, 1}, routeSummary : BOOLEAN]

\* The answer carries a route.
RouteUsable(resp) == resp.ok /\ resp.code = 0 /\ resp.routeSummary

\* kyberswap.js:284  if (receipt.status !== 1) throw
SwapConfirmed(status) == status = 1

\* baseBridge.js:243  if (receipt.status !== 1) throw
BurnConfirmed(status) == status = 1

\* baseBridge.js:227 and index.js:195: the balance check made inside the call.
BalanceCovers(balance, amount) == ~(balance < amount)

\* bridgeVerifier.js:162  while (Date.now() - startTime < maxWaitMs)
WaitContinues(elapsedMs, maxWait) == elapsedMs < maxWait

\* bridgeVerifier.js:57-60 expectedMario, toleranceMario, minAmount, maxAmount
ExpectedMario(expectedAmount) == expectedAmount * MarioPerArio

ToleranceMario(expectedAmount) ==
  (ExpectedMario(expectedAmount) * TolerancePercent) \div 100

\* bridgeVerifier.js:113  edge.node.block?.timestamp of a transaction that
\* is in no block yet.
NoTimestamp == 0

\* bridgeVerifier.js:103  maxAge in seconds.
MaxAgeSeconds == MaxAgeMinutes * 60

\* bridgeVerifier.js:113-116  a notice is skipped as too old when it has a
\* block timestamp and that lies more than maxAge seconds back.
TooOld(blockTimestamp, now, maxAge) ==
  blockTimestamp # NoTimestamp /\ now - blockTimestamp > maxAge

\* bridgeVerifier.js:111-116  the amount is within the tolerance and the
\* notice is not older than maxAgeMinutes.
NoticeMatches(n, expectedAmount) ==
  /\ n.quantity >= ExpectedMario(expectedAmount) - ToleranceMario(expectedAmount)
  /\ n.quantity <= ExpectedMario(expectedAmount) + ToleranceMario(expectedAmount)
  /\ ~n.old

\* bridgeVerifier.js:91-131  the first matching notice among the at most ten
\* most recent ones the index returns; 0 when there is none.
verifyBridgeCredit(ns, expectedAmount) ==
  LET page == 1..Min(Len(ns), IndexPageSize)
      hits == {i \in page : NoticeMatches(ns[i], expectedAmount)}
  IN IF hits = {} THEN 0
     ELSE ns[CHOOSE i \in hits : \A j \in hits : i <= j].id

\* ------------------------------------------------------------------- state

VARIABLES
  config,          \* the configuration object of index.js, fixed for a run
  cycles,          \* calls of performTopUp so far
  faults,          \* external calls that have failed so far
  targetBal,       \* ARIO of the target wallet on AO
  botAoBal,        \* ARIO of the bot's own AO wallet
  baseArio,        \* ARIO of the Base wallet
  baseUsdc,        \* USDC of the Base wallet, in hundredths
  allowance,       \* USDC allowance of the KyberSwap router, in hundredths
  inTransit,       \* burned amounts the bridge has not minted yet, oldest first
  notices,         \* Credit-Notices in the index, newest first
  pc,              \* where performTopUp (or waitForBridgeCredit) stands
  currentBalance,  \* performTopUp: const currentBalance
  amountNeeded,    \* performTopUp: const amountNeeded
  remainingNeeded, \* performTopUp: let remainingNeeded
  botAoBalance,    \* performTopUp: botAoBalance.balance
  baseBalances,    \* performTopUp: baseBalances (usdc, ario)
  swapCalc,        \* performTopUp: swapCalc (usdcNeeded, priceImpact)
  route,           \* executeSwap: const route
  swapResult,      \* performTopUp: swapResult
  postSwapArioBalance, \* performTopUp: let postSwapArioBalance
  burnAmount,      \* performTopUp: const burnAmount
  waitFor,         \* waitForBridgeCredit: its caller and its arguments
  elapsed,         \* waitForBridgeCredit: Date.now() - startTime
  delayed,         \* waitForBridgeCredit: latency added so far
  attempts,        \* waitForBridgeCredit: let attempts
  waitResult,      \* waitForBridgeCredit: what it returned
  events,          \* the calls of the current cycle, in order
  main,            \* main(): its position, the schedule and the cycles in progress
  slack,           \* slack.js: the client and what sendMessageToSlack has done
  call             \* a library function called on its own: arguments, position, outcome

worldVars == <<targetBal, botAoBal, baseArio, baseUsdc, allowance, inTransit, notices>>

localVars == <<currentBalance, amountNeeded, remainingNeeded, botAoBalance,
               baseBalances, swapCalc, route, swapResult,
                 postSwapArioBalance, burnAmount>>

waitVars == <<waitFor, elapsed, delayed, attempts, waitResult>>

\* The process around the cycles: main() and the notification module.
hostVars == <<main, slack, call>>

\* Everything a cycle reads or writes.
cycleVars == <<worldVars, pc, cycles, faults, localVars, waitVars, events>>

vars == <<config, cycleVars, hostVars>>

\* -------------------------------------------------------------- the inputs

\* The configurations of the runs: main exits unless validateConfig passes.
Configs ==
  {c \in [minBalance : {MaxBalance - 1, MaxBalance}, targetBalance : {MaxBalance},
          minTransferAmount : {1, MaxBalance + 1},
          maxSlippage : {DefaultMaxSlippage}, dryRun : BOOLEAN,
          decimals : {6}, cronFields : {5}, targetWalletAddress : {TRUE}] :
     validateConfig(c)}

\* What the loader (index.js:46-83) can make of the environment: each
\* numeric setting is a number or NaN, the cron expression has any number
\* of fields, the target wallet address is set or not.
LoadedConfigs ==
  [minBalance : {NaN, 0, MaxBalance - 1, MaxBalance},
   targetBalance : {NaN, 0, MaxBalance - 1, MaxBalance},
   minTransferAmount : {NaN, 0 - 1, 1},
   maxSlippage : {NaN, 0, DefaultMaxSlippage, 100, 101},
   dryRun : {FALSE},
   decimals : {NaN, 0 - 1, 6, 18, 19},
   cronFields : {4, 5, 6, 7},
   targetWalletAddress : BOOLEAN]

\* What the Base wallet is funded with: enough for one swap of the whole
\* target at a price of 1.
FundedUsdc == UsdcNeeded(MaxBalance, 1)

\* The prices (USDC per ARIO) and price impacts (percent) a route reports.
Prices == {1, 2}

Impacts == {DefaultMaxSlippage, DefaultMaxSlippage + 5}

\* The ARIO a route promises and a swap delivers.
SwapOutputs == {1, MaxBalance + 1}

\* Unlimited approval (ethers.MaxUint256), larger than any amount swapped.
MaxUint == 2 * UsdcNeeded(MaxBalance + 1, 2)

NoSwapCalc == [usdcNeeded |-> 0, priceImpact |-> 0, effectivePrice |-> 0]

NoRoute == [fetched |-> FALSE, priceImpact |-> 0, amountOut |-> 0]

NoSwapResult == [called |-> FALSE, success |-> FALSE, aborted |-> FALSE,
                 dryRun |-> FALSE, expectedAmountOut |-> 0, priceImpact |-> 0]

NoWait == [caller |-> "none", expectedAmount |-> 0, maxWaitMs |-> 0, pollIntervalMs |-> 0]

NoWaitResult == [returned |-> FALSE, threw |-> FALSE, success |-> FALSE,
                 transaction |-> 0, waitTimeMs |-> 0]

\* No library function is being looked at on its own.
NoCall == [fn |-> "none"]

\* main() before its first statement (index.js:694-696).
MainStart ==
  [pc |-> "validate", valid |-> FALSE, exitCode |-> 0, initialized |-> FALSE,
   scheduled |-> FALSE, fired |-> 0, started |-> 0, returned |-> 0,
   running |-> 0, waiting |-> 0]

\* main() once the schedule is registered (index.js:711-717), where the
\* cycles of Spec run one after the other.
MainResident ==
  [MainStart EXCEPT !.pc = "resident", !.valid = TRUE, !.initialized = TRUE,
                    !.scheduled = TRUE]

\* The notification module with a client and nothing sent
\* (unnamed/part_002 11-14).
SlackIdle == [web |-> TRUE, calls |-> 0, continued |-> 0, posted |-> <<>>,
              logged |-> 0, threw |-> FALSE]

LocalsInit ==
  /\ currentBalance = 0
  /\ amountNeeded = 0
  /\ remainingNeeded = 0
  /\ botAoBalance = 0
  /\ baseBalances = [usdc |-> 0, ario |-> 0]
  /\ swapCalc = NoSwapCalc
  /\ route = NoRoute
  /\ swapResult = NoSwapResult
  /\ postSwapArioBalance = 0
  /\ burnAmount = 0

WaitInit ==
  /\ waitFor = NoWait
  /\ elapsed = 0
  /\ delayed = 0
  /\ attempts = 0
  /\ waitResult = NoWaitResult

\* After initialize(): wallets loaded, nothing in flight.
Init ==
  /\ config \in Configs
  /\ targetBal \in 0..MaxBalance
  /\ botAoBal \in 0..MaxBalance
  /\ baseArio \in 0..MaxBalance
  /\ baseUsdc = FundedUsdc
  /\ allowance = 0
  /\ inTransit = <<>>
  /\ notices = <<>>
  /\ pc = "idle"
  /\ cycles = 0
  /\ faults = 0
  /\ LocalsInit
  /\ WaitInit
  /\ events = <<>>
  /\ main = MainResident
  /\ slack = SlackIdle
  /\ call = NoCall

\* ------------------------------------------------------- performTopUp steps

\* The failed calls a log shows.  The return of waitForBridgeCredit is logged
\* with its success flag, which is a result and not a failure.
Failures(evs) == Cardinality({i \in DOMAIN evs : ~evs[i].ok /\ evs[i].op # "wait_return"})

\* The step a handler takes may add failed calls to the log, within the
\* bound on failures.
Budget ==
  /\ faults' = faults + (Failures(events') - Failures(events))
  /\ faults' <= MaxFaults

\* A catch that ends the cycle and sends nothing.
CatchSilent(evs) ==
  /\ events' = evs
  /\ pc' = "done"

\* index.js:680-688  the catch of performTopUp: log, alert, end of the cycle.
Catch(evs) ==
  /\ events' = Log(evs, Call("slack", "topup_failed"))
  /\ pc' = "done"

\* main: the startup run (index.js:708) or a cron trigger (index.js:711-714)
\* calls performTopUp.
StartCycle ==
  /\ pc = "idle"
  /\ cycles < MaxCycles
  /\ cycles' = cycles + 1
  /\ pc' = "check_target"
  /\ UNCHANGED <<config, worldVars, faults, localVars, waitVars, events>>
  /\ UNCHANGED hostVars

\* performTopUp has returned (every path of it ends in a return or in its
\* catch, index.js:255-689): its locals are gone, and the process waits for
\* the next cron trigger (index.js:711-717).  `events` is the log of one
\* cycle.
CycleReturns ==
  /\ pc = "done"
  /\ pc' = "idle"
  /\ currentBalance' = 0
  /\ amountNeeded' = 0
  /\ remainingNeeded' = 0
  /\ botAoBalance' = 0
  /\ baseBalances' = [usdc |-> 0, ario |-> 0]
  /\ swapCalc' = NoSwapCalc
  /\ route' = NoRoute
  /\ swapResult' = NoSwapResult
  /\ postSwapArioBalance' = 0
  /\ burnAmount' = 0
  /\ waitFor' = NoWait
  /\ elapsed' = 0
  /\ delayed' = 0
  /\ attempts' = 0
  /\ waitResult' = NoWaitResult
  /\ events' = <<>>
  /\ UNCHANGED <<config, worldVars, cycles, faults>>
  /\ UNCHANGED hostVars

\* index.js:128-148 and 153-179: a Balance dry-run on the token process.
\* The reply carries the balance, or no message data ('0' is parsed then).
BalanceReply(actual) == {actual, 0}

\* index.js:271-292  Step 1: the target balance, the sufficiency check, the
\* need and the minimum-transfer check.
CheckTarget ==
  /\ pc = "check_target"
  /\ UNCHANGED <<config, cycles, worldVars, waitVars, botAoBalance, baseBalances,
                 swapCalc, route, swapResult,
                 postSwapArioBalance, burnAmount>>
  /\ \/ \E bal \in BalanceReply(targetBal) :
          LET evs == Log(events, Call("query", "target"))
              need == AmountNeeded(config.targetBalance, bal)
          IN /\ currentBalance' = bal
             /\ events' = evs
             /\ IF BalanceSufficient(bal, config.minBalance)
                  THEN /\ pc' = "done"
                       /\ UNCHANGED <<amountNeeded, remainingNeeded>>
                  ELSE /\ amountNeeded' = need
                       /\ UNCHANGED remainingNeeded
                       /\ pc' = IF BelowMinTransfer(need, config.minTransferAmount)
                                  THEN "done" ELSE "check_bot"
     \/ /\ Catch(Log(events, FailedCall("query", "target")))
        /\ UNCHANGED <<currentBalance, amountNeeded, remainingNeeded>>
  /\ Budget
  /\ UNCHANGED hostVars

\* index.js:294-304  Step 2: the bot's AO wallet; remainingNeeded starts as
\* amountNeeded.
CheckBot ==
  /\ pc = "check_bot"
  /\ UNCHANGED <<config, cycles, worldVars, waitVars, currentBalance, amountNeeded,
                 baseBalances, swapCalc, route, swapResult,
                 postSwapArioBalance, burnAmount>>
  /\ \/ \E bal \in BalanceReply(botAoBal) :
          /\ botAoBalance' = bal
          /\ remainingNeeded' = amountNeeded
          /\ events' = Log(events, Call("query", "bot"))
          /\ pc' = IF bal > 0 THEN "recovery_transfer" ELSE "check_base"
     \/ /\ Catch(Log(events, FailedCall("query", "bot")))
        /\ UNCHANGED <<botAoBalance, remainingNeeded>>
  /\ Budget
  /\ UNCHANGED hostVars

\* index.js:310-319  the catch of the recovery transfer logs the error and
\* control goes on to the test of the remaining need.
TransferCaught(remaining) == IF remaining <= 0 THEN "done" ELSE "check_base"

\* index.js:184-250  transferArioOnAO(amount, isRecovery), called at
\* index.js:306-319 in a try whose catch only logs.  In dry-run it returns
\* before anything is sent.  Otherwise it checks the bot balance again,
\* sends the Transfer message, reads its result and writes the ledger
\* record; any of these may throw.
RecoveryTransfer ==
  /\ pc = "recovery_transfer"
  /\ UNCHANGED <<config, cycles, baseArio, baseUsdc, allowance, inTransit, notices,
                 waitVars, currentBalance, amountNeeded, botAoBalance,
                 baseBalances, swapCalc, route, swapResult,
                 postSwapArioBalance, burnAmount>>
  /\ LET amount == RecoveryTransferAmount(botAoBalance, amountNeeded)
         sent == Ev("ao_transfer", "recovery", amount, botAoBalance, amountNeeded, TRUE)
         after == remainingNeeded - amount
         next(rem) == IF rem <= 0 THEN "done" ELSE "check_base"
     IN \/ /\ transferDryRunReturn(config.dryRun)
           /\ remainingNeeded' = after
           /\ pc' = next(after)
           /\ UNCHANGED <<targetBal, botAoBal, events>>
        \/ /\ ~transferDryRunReturn(config.dryRun)
           /\ \/ \* the balance query fails, or the balance does not cover
                 /\ events' = Log(events, FailedCall("query", "bot_for_transfer"))
                 /\ UNCHANGED <<targetBal, botAoBal, remainingNeeded>>
                 /\ pc' = TransferCaught(remainingNeeded)
              \/ \* the message is not accepted
                 /\ BalanceCovers(botAoBal, amount)
                 /\ events' = Log(Log(events, Call("query", "bot_for_transfer")),
                                  Ev("ao_transfer", "recovery", amount, botAoBalance,
                                     amountNeeded, FALSE))
                 /\ UNCHANGED <<targetBal, botAoBal, remainingNeeded>>
                 /\ pc' = TransferCaught(remainingNeeded)
              \/ \* sent, then result() or logRecovery throws
                 /\ BalanceCovers(botAoBal, amount)
                 /\ botAoBal' = botAoBal - amount
                 /\ targetBal' = targetBal + amount
                 /\ events' = Log(Log(Log(events, Call("query", "bot_for_transfer")), sent),
                                  FailedCall("csv", "RECOVERY_TRANSFER"))
                 /\ UNCHANGED remainingNeeded
                 /\ pc' = TransferCaught(remainingNeeded)
              \/ \* sent and recorded
                 /\ BalanceCovers(botAoBal, amount)
                 /\ botAoBal' = botAoBal - amount
                 /\ targetBal' = targetBal + amount
                 /\ events' = Log(Log(Log(events, Call("query", "bot_for_transfer")), sent),
                                  Call("csv", "RECOVERY_TRANSFER"))
                 /\ remainingNeeded' = after
                 /\ pc' = next(after)
  /\ Budget
  /\ UNCHANGED hostVars

\* index.js:321-354  Step 3: the Base balances (getAllBalances,
\* baseBridge.js:121-134), the low-ETH warning, and whether ARIO already on
\* Base is to be burned first.
CheckBase ==
  /\ pc = "check_base"
  /\ UNCHANGED <<config, cycles, worldVars, waitVars, currentBalance, amountNeeded,
                 remainingNeeded, botAoBalance, swapCalc, route, swapResult,
                 postSwapArioBalance, burnAmount>>
  /\ \/ \E lowEth \in BOOLEAN :
          /\ baseBalances' = [usdc |-> baseUsdc, ario |-> baseArio]
          /\ events' = IF lowEth
                         THEN Log(Log(events, Call("query", "base")), Call("slack", "low_eth"))
                         ELSE Log(events, Call("query", "base"))
          /\ pc' = IF baseArio > 0 /\ ~recoveryBurnDryRun(config.dryRun)
                     THEN "recovery_burn" ELSE "calc"
     \/ /\ Catch(Log(events, FailedCall("query", "base")))
        /\ UNCHANGED baseBalances
  /\ Budget
  /\ UNCHANGED hostVars

\* The cycle's call of waitForBridgeCredit (index.js:379-389 and 620-630).
CycleWait(caller, amount) ==
  [caller |-> caller, expectedAmount |-> amount,
   maxWaitMs |-> CycleMaxWaitMs, pollIntervalMs |-> CyclePollIntervalMs]

\* index.js:355-376 and 432-435  Step 3.5: burnToAO of the ARIO found on
\* Base (baseBridge.js:203-259) and its ledger record, in a try whose catch
\* only logs and goes on to the swap.
RecoveryBurn ==
  /\ pc = "recovery_burn"
  /\ UNCHANGED <<config, cycles, targetBal, botAoBal, baseUsdc, allowance, notices,
                 localVars, delayed, attempts, waitResult>>
  /\ LET amount == RecoveryBurnAmount(baseBalances.ario, remainingNeeded)
         burn(ok) == Ev("burn_tx", "recovery", amount, baseBalances.ario, remainingNeeded, ok)
     IN \/ \* the balance read inside burnToAO fails or does not cover
           /\ events' = Log(events, FailedCall("query", "ario_for_recovery_burn"))
           /\ pc' = "calc"
           /\ UNCHANGED <<baseArio, inTransit, waitFor, elapsed>>
        \/ \* the burn is submitted: its receipt says reverted (0) or confirmed (1)
           \E status \in {0, 1} :
             LET burned == Log(Log(events, Call("query", "ario_for_recovery_burn")),
                               burn(status = 1))
             IN /\ BalanceCovers(baseArio, amount)
                /\ baseArio' = IF status = 1 THEN baseArio - amount ELSE baseArio
                /\ inTransit' = IF status = 1 THEN Append(inTransit, amount) ELSE inTransit
                /\ IF ~BurnConfirmed(status)
                     THEN \* burnToAO throws
                          /\ events' = burned
                          /\ pc' = "calc"
                          /\ UNCHANGED <<waitFor, elapsed>>
                     ELSE \/ \* the ledger write throws
                             /\ events' = Log(burned, FailedCall("csv", "BASE_BURN"))
                             /\ pc' = "calc"
                             /\ UNCHANGED <<waitFor, elapsed>>
                          \/ \* recorded: wait for the credit
                             /\ events' = Log(burned, Call("csv", "BASE_BURN"))
                             /\ waitFor' = CycleWait("recovery", amount)
                             /\ elapsed' = 0
                             /\ pc' = "wait"
  /\ Budget
  /\ UNCHANGED hostVars

\* What one poll iteration adds to the clock besides the sleep: the latency
\* of the index query (the timer fires at its nominal time).  Inside a cycle
\* the count of polls is all that matters and the iteration takes its
\* nominal time.
Delays(caller) == IF caller = "alone" THEN 0..MaxLatency ELSE {0}

\* Where control goes when waitForBridgeCredit returns.
WaitReturn(caller) ==
  CASE caller = "recovery" -> "recovery_verified"
    [] caller = "post" -> "post_verified"
    [] OTHER -> "wait_returned"

\* The calls of a wait as `events` shows them: the first index query of a
\* wait is logged (polling has started) and so is a query that fails, the
\* others are counted in attempts, and the return of the call is logged with its success flag.
Polled(evs, caller, n, ok) ==
  IF n = 0 \/ ~ok THEN Log(evs, Ev("poll", caller, 0, 0, 0, ok)) ELSE evs

Returned(evs, caller, success) == Log(evs, Ev("wait_return", caller, 0, 0, 0, success))

\* bridgeVerifier.js:152-190  one turn of the loop of waitForBridgeCredit:
\* the loop test, then onPoll, verifyBridgeCredit and the sleep; or the
\* return after the loop.  An error of the index query is not caught here:
\* it reaches the caller's catch (index.js:432 for the recovery burn,
\* index.js:680 otherwise).
WaitPoll ==
  /\ pc = "wait"
  /\ UNCHANGED <<config, cycles, worldVars, localVars, waitFor>>
  /\ IF WaitContinues(elapsed, waitFor.maxWaitMs)
       THEN \/ \* the index query fails
               /\ waitResult' = [NoWaitResult EXCEPT !.threw = TRUE]
               /\ attempts' = attempts + 1
               /\ UNCHANGED <<elapsed, delayed>>
               /\ IF waitFor.caller = "post"
                    THEN Catch(Polled(events, waitFor.caller, attempts, FALSE))
                    ELSE /\ events' = Polled(events, waitFor.caller, attempts, FALSE)
                         /\ pc' = IF waitFor.caller = "recovery" THEN "recovery_threw"
                                  ELSE "wait_returned"
            \/ \E d \in Delays(waitFor.caller) :
                 LET tx == verifyBridgeCredit(notices, waitFor.expectedAmount)
                     polled == Polled(events, waitFor.caller, attempts, TRUE)
                 IN /\ delayed' = delayed + d
                    /\ attempts' = attempts + 1
                    /\ IF tx # 0
                         THEN /\ waitResult' = [returned |-> TRUE, threw |-> FALSE,
                                                success |-> TRUE, transaction |-> tx,
                                                waitTimeMs |-> elapsed + d]
                              /\ elapsed' = elapsed + d
                              /\ events' = Returned(polled, waitFor.caller, TRUE)
                              /\ pc' = WaitReturn(waitFor.caller)
                         ELSE /\ elapsed' = elapsed + d + waitFor.pollIntervalMs
                              /\ events' = polled
                              /\ UNCHANGED <<waitResult, pc>>
       ELSE /\ waitResult' = [returned |-> TRUE, threw |-> FALSE, success |-> FALSE,
                              transaction |-> 0, waitTimeMs |-> elapsed]
            /\ events' = Returned(events, waitFor.caller, FALSE)
            /\ pc' = WaitReturn(waitFor.caller)
            /\ UNCHANGED <<elapsed, delayed, attempts>>
  /\ Budget
  /\ UNCHANGED hostVars

\* When the caller has read the result, the frame of waitForBridgeCredit is
\* gone.
WaitFrameDropped ==
  /\ waitFor' = NoWait
  /\ elapsed' = 0
  /\ delayed' = 0
  /\ attempts' = 0
  /\ waitResult' = NoWaitResult

\* index.js:432-435  the catch of the recovery burn, reached from the wait:
\* it logs and the cycle goes on to the swap.
RecoveryWaitThrew ==
  /\ pc = "recovery_threw"
  /\ pc' = "calc"
  /\ WaitFrameDropped
  /\ UNCHANGED <<config, cycles, faults, worldVars, localVars, events>>
  /\ UNCHANGED hostVars

\* index.js:391-431  after the recovery burn's wait: the need is reduced by
\* the amount burned, and a burn that covers it ends the cycle with the
\* notification that fits the verification.
AfterRecoveryWait ==
  /\ pc = "recovery_verified"
  /\ WaitFrameDropped
  /\ UNCHANGED <<config, cycles, worldVars, currentBalance, amountNeeded,
                 botAoBalance, baseBalances, swapCalc, route, swapResult,
                 postSwapArioBalance, burnAmount>>
  /\ LET rem == RemainingAfterRecoveryBurn(remainingNeeded, baseBalances.ario)
     IN /\ remainingNeeded' = rem
        /\ IF rem <= 0
             THEN /\ events' = Log(events, Call("slack",
                                  IF waitResult.success THEN "recovery_complete"
                                  ELSE "recovery_unverified"))
                  /\ pc' = "done"
             ELSE /\ pc' = "calc"
                  /\ UNCHANGED events
  /\ Budget
  /\ UNCHANGED hostVars

\* index.js:439-488  Step 4: calculateUsdcNeeded (kyberswap.js:331-362: a
\* price route, then a route for the buffered amount), the price-impact
\* check and the USDC check against the balances read in Step 3.
Calc ==
  /\ pc = "calc"
  /\ UNCHANGED <<config, cycles, worldVars, waitVars, currentBalance, amountNeeded,
                 remainingNeeded, botAoBalance, baseBalances, route, swapResult,
                 postSwapArioBalance, burnAmount>>
  /\ \E resp \in RouteResponses, price \in Prices, impact \in Impacts :
       LET needed == UsdcNeeded(remainingNeeded, price)
           evs == Log(Log(events, Call("route", "price")),
                      Ev("route", "calc", 0, 0, 0, RouteUsable(resp)))
           verdict == CalcVerdict(impact, config.maxSlippage, baseBalances.usdc, needed)
       IN IF getSwapRouteThrows(resp.ok, resp.code, resp.routeSummary)
            THEN /\ Catch(Log(events, FailedCall("route", "calc")))
                 /\ UNCHANGED swapCalc
            ELSE /\ swapCalc' = [usdcNeeded |-> needed, priceImpact |-> impact,
                                 effectivePrice |-> price]
                 /\ IF verdict = "proceed"
                      THEN /\ events' = evs
                           /\ pc' = "swap"
                      ELSE /\ events' = Log(evs, Call("slack", verdict))
                           /\ pc' = AbortReturn
  /\ Budget
  /\ UNCHANGED hostVars

\* kyberswap.js:222  the route executeSwap works from is the one it has
\* just requested; the quote of calculateUsdcNeeded stayed in that call.
SwapRoute(own, calc) == own

\* kyberswap.js:215-303  executeSwap(swapCalc.usdcNeeded, maxSlippage,
\* dryRun) as called at index.js:492-501: its own route, the gate, the
\* dry-run return, then ensureAllowance (kyberswap.js:176-206), the route
\* build (encodeSwapData), the transaction and its receipt.  A result with
\* success=false makes performTopUp return; an exception reaches its catch.
ExecuteSwap ==
  /\ pc = "swap"
  /\ UNCHANGED <<config, cycles, targetBal, botAoBal, inTransit, notices, waitVars,
                 currentBalance, amountNeeded, remainingNeeded, botAoBalance,
                 baseBalances, swapCalc, postSwapArioBalance, burnAmount>>
  /\ LET amountIn == swapCalc.usdcNeeded
     IN \/ \* getSwapRoute throws
           /\ \E resp \in RouteResponses :
                getSwapRouteThrows(resp.ok, resp.code, resp.routeSummary)
           /\ Catch(Log(events, FailedCall("route", "swap")))
           /\ UNCHANGED <<baseArio, baseUsdc, allowance, route, swapResult>>
        \/ \E resp \in RouteResponses, impact \in Impacts, out \in SwapOutputs :
             LET fresh == Log(events, Ev("route", "swap", amountIn, 0, 0, RouteUsable(resp)))
                 quoted == [fetched |-> TRUE, priceImpact |-> impact, amountOut |-> out]
                 r == SwapRoute(quoted, [fetched |-> TRUE,
                                         priceImpact |-> swapCalc.priceImpact,
                                         amountOut |-> remainingNeeded])
                 approves == ~AllowanceSufficient(allowance, amountIn)
                 checked == Log(fresh, Call("query", "allowance"))
                 allowed == IF approves
                              THEN Log(checked, Ev("approve", "usdc", MaxUint, 0, 0, TRUE))
                              ELSE checked
                 built == Log(allowed, Ev("build", "swap", amountIn, r.priceImpact,
                                          r.amountOut, TRUE))
                 result(dry) == [called |-> TRUE, success |-> TRUE, aborted |-> FALSE,
                                 dryRun |-> dry, expectedAmountOut |-> r.amountOut,
                                 priceImpact |-> r.priceImpact]
             IN /\ ~getSwapRouteThrows(resp.ok, resp.code, resp.routeSummary)
                /\ route' = quoted
                /\ IF SwapGate(r.priceImpact, config.maxSlippage)
                     THEN /\ swapResult' = [called |-> TRUE, success |-> FALSE,
                                            aborted |-> TRUE, dryRun |-> FALSE,
                                            expectedAmountOut |-> 0,
                                            priceImpact |-> r.priceImpact]
                          /\ events' = fresh
                          /\ pc' = "done"
                          /\ UNCHANGED <<baseArio, baseUsdc, allowance>>
                     ELSE IF swapDryRunReturn(config.dryRun)
                     THEN /\ swapResult' = result(TRUE)
                          /\ events' = fresh
                          /\ pc' = "post_swap"
                          /\ UNCHANGED <<baseArio, baseUsdc, allowance>>
                     ELSE \/ \* the approval fails
                             /\ approves
                             /\ Catch(Log(checked, Ev("approve", "usdc", MaxUint, 0, 0, FALSE)))
                             /\ UNCHANGED <<baseArio, baseUsdc, allowance, swapResult>>
                          \/ \* the route build fails
                             /\ allowance' = IF approves THEN MaxUint ELSE allowance
                             /\ Catch(Log(allowed, Ev("build", "swap", amountIn, r.priceImpact,
                                                   r.amountOut, FALSE)))
                             /\ UNCHANGED <<baseArio, baseUsdc, swapResult>>
                          \/ \* the swap transaction is sent: its receipt says
                             \* reverted (0) or confirmed (1), and a confirmed
                             \* swap gives the wallet what the market gives
                             \E status \in {0, 1}, got \in {g \in SwapOutputs : g <= r.amountOut} :
                               LET sent == Log(built, Ev("swap_tx", "usdc_ario", amountIn,
                                                         0, 0, status = 1))
                               IN /\ status = 1 => baseUsdc >= amountIn
                                  /\ allowance' = IF approves THEN MaxUint ELSE allowance
                                  /\ baseUsdc' = IF status = 1 THEN baseUsdc - amountIn
                                                 ELSE baseUsdc
                                  /\ baseArio' = IF status = 1 THEN baseArio + got
                                                 ELSE baseArio
                                  /\ IF SwapConfirmed(status)
                                       THEN /\ swapResult' = result(FALSE)
                                            /\ events' = sent
                                            /\ pc' = "post_swap"
                                       ELSE /\ Catch(sent)
                                            /\ UNCHANGED swapResult
  /\ Budget
  /\ UNCHANGED hostVars

\* index.js:536-548  the catch around the balance read after the swap: the
\* 'Swap Succeeded But Balance Check Failed' message, then return.
BalanceCheckAlert(evs) == Log(evs, Call("slack", "balance_check_failed"))

\* index.js:503-555  the swap's ledger record, the ARIO balance on Base
\* after the swap (in dry-run the quoted output stands for it) and the
\* amount to burn.
PostSwap ==
  /\ pc = "post_swap"
  /\ UNCHANGED <<config, cycles, worldVars, waitVars, currentBalance, amountNeeded,
                 remainingNeeded, botAoBalance, baseBalances, swapCalc, route,
                 swapResult>>
  /\ IF ~LedgerEnabled(config.dryRun)
       THEN /\ postSwapArioBalance' = PostSwapBalance(config.dryRun,
                                                      swapResult.expectedAmountOut, baseArio)
            /\ burnAmount' = PostSwapBurnAmount(postSwapArioBalance', remainingNeeded)
            /\ pc' = "burn"
            /\ UNCHANGED events
       ELSE \/ \* logBaseSwap throws
               /\ Catch(Log(events, FailedCall("csv", "BASE_SWAP")))
               /\ UNCHANGED <<postSwapArioBalance, burnAmount>>
            \/ \* getArioBalance throws
               /\ events' = BalanceCheckAlert(Log(Log(events, Call("csv", "BASE_SWAP")),
                                                  FailedCall("query", "base_ario")))
               /\ pc' = "done"
               /\ UNCHANGED <<postSwapArioBalance, burnAmount>>
            \/ /\ postSwapArioBalance' = PostSwapBalance(config.dryRun,
                                                         swapResult.expectedAmountOut, baseArio)
               /\ burnAmount' = PostSwapBurnAmount(postSwapArioBalance', remainingNeeded)
               /\ events' = Log(Log(events, Call("csv", "BASE_SWAP")),
                                Call("query", "base_ario"))
               /\ pc' = "burn"
  /\ Budget
  /\ UNCHANGED hostVars

\* index.js:559-575  the catch around the post-swap burnToAO: the
\* 'CRITICAL: Swap Succeeded But Burn Failed' message, then return.
BurnFailureAlert(evs) == Log(evs, Call("slack", "burn_failed"))

\* index.js:557-614  Step 6: burnToAO(burnAmount, target, dryRun)
\* (baseBridge.js:203-259), the burn's ledger record, and the end of a
\* dry-run cycle.
Burn ==
  /\ pc = "burn"
  /\ UNCHANGED <<config, cycles, targetBal, botAoBal, baseUsdc, allowance, notices,
                 localVars, delayed, attempts, waitResult>>
  /\ LET burn(ok) == Ev("burn_tx", "post_swap", burnAmount, postSwapArioBalance,
                        remainingNeeded, ok)
         failed(evs) == /\ events' = BurnFailureAlert(evs)
                        /\ pc' = "done"
                        /\ UNCHANGED <<baseArio, inTransit, waitFor, elapsed>>
     IN IF burnDryRunReturn(config.dryRun)
          THEN /\ events' = Log(events, Call("slack", "dry_run_summary"))
               /\ pc' = "done"
               /\ UNCHANGED <<baseArio, inTransit, waitFor, elapsed>>
          ELSE \/ \* the balance read inside burnToAO fails or does not cover
                  failed(Log(events, FailedCall("query", "ario_for_burn")))
               \/ \* the burn is submitted: its receipt says reverted (0) or
                  \* confirmed (1)
                  \E status \in {0, 1} :
                    LET burned == Log(Log(events, Call("query", "ario_for_burn")),
                                      burn(status = 1))
                    IN /\ BalanceCovers(baseArio, burnAmount)
                       /\ IF ~BurnConfirmed(status)
                            THEN \* burnToAO throws
                                 /\ events' = BurnFailureAlert(burned)
                                 /\ pc' = "done"
                                 /\ baseArio' = IF status = 1 THEN baseArio - burnAmount
                                                ELSE baseArio
                                 /\ inTransit' = IF status = 1
                                                   THEN Append(inTransit, burnAmount)
                                                   ELSE inTransit
                                 /\ UNCHANGED <<waitFor, elapsed>>
                            ELSE /\ baseArio' = IF status = 1 THEN baseArio - burnAmount
                                                ELSE baseArio
                                 /\ inTransit' = IF status = 1
                                                   THEN Append(inTransit, burnAmount)
                                                   ELSE inTransit
                                 /\ \/ \* the ledger write throws
                                       /\ Catch(Log(burned, FailedCall("csv", "BASE_BURN")))
                                       /\ UNCHANGED <<waitFor, elapsed>>
                                    \/ \* recorded: wait for the credit
                                       /\ events' = Log(burned, Call("csv", "BASE_BURN"))
                                       /\ waitFor' = CycleWait("post", burnAmount)
                                       /\ elapsed' = 0
                                       /\ pc' = "wait"
  /\ Budget
  /\ UNCHANGED hostVars

\* index.js:632-678  after the post-swap wait: getAllBalances, then the
\* notification that fits the verification.
AfterWait ==
  /\ pc = "post_verified"
  /\ WaitFrameDropped
  /\ UNCHANGED <<config, cycles, worldVars, localVars>>
  /\ \/ Catch(Log(events, FailedCall("query", "base")))
     \/ /\ events' = Log(Log(events, Call("query", "base")),
                         Call("slack", IF waitResult.success THEN "topup_complete"
                                       ELSE "bridge_unverified"))
        /\ pc' = "done"
  /\ Budget
  /\ UNCHANGED hostVars

\* ---------------------------------------------------------- the environment

\* The bridge mints a burned amount to the burn's destination, the target
\* wallet (index.js:350 and 552), and the index shows its Credit-Notice.
\* The cycle reads the target balance only at its start and the index only
\* in a poll, so a delivery is placed between cycles or between polls.
BridgeDeliver ==
  /\ pc \in {"idle", "wait"}
  /\ inTransit # <<>>
  /\ targetBal' = targetBal + Head(inTransit)
  /\ inTransit' = Tail(inTransit)
  /\ notices' = <<[id |-> Len(notices) + 1,
                   quantity |-> ExpectedMario(Head(inTransit)),
                   old |-> FALSE]>> \o notices
  /\ UNCHANGED <<config, cycles, faults, botAoBal, baseArio, baseUsdc, allowance, pc, localVars,
                 waitVars, events>>
  /\ UNCHANGED hostVars

\* Between two cycles time passes: the notices in the index grow older than
\* maxAgeMinutes (bridgeVerifier.js:103, 114).
NoticesAge ==
  /\ pc = "idle"
  /\ \E i \in DOMAIN notices : ~notices[i].old
  /\ notices' = [i \in DOMAIN notices |-> [notices[i] EXCEPT !.old = TRUE]]
  /\ UNCHANGED <<config, cycles, faults, targetBal, botAoBal, baseArio, baseUsdc, allowance,
                 inTransit, pc, localVars, waitVars, events>>
  /\ UNCHANGED hostVars

Next ==
  \/ StartCycle
  \/ CycleReturns
  \/ CheckTarget
  \/ CheckBot
  \/ RecoveryTransfer
  \/ CheckBase
  \/ RecoveryBurn
  \/ WaitPoll
  \/ RecoveryWaitThrew
  \/ AfterRecoveryWait
  \/ Calc
  \/ ExecuteSwap
  \/ PostSwap
  \/ Burn
  \/ AfterWait
  \/ BridgeDeliver
  \/ NoticesAge

Spec == Init /\ [][Next]_vars

\* The steps of performTopUp: every one of them is an awaited call that
\* returns or fails, after which the function goes on.
CycleStep ==
  \/ CheckTarget
  \/ CheckBot
  \/ RecoveryTransfer
  \/ CheckBase
  \/ RecoveryBurn
  \/ WaitPoll
  \/ RecoveryWaitThrew
  \/ AfterRecoveryWait
  \/ Calc
  \/ ExecuteSwap
  \/ PostSwap
  \/ Burn
  \/ AfterWait

\* The cycles under the assumption that every external call returns or
\* fails: a step that can be taken is taken.
SpecLive == Init /\ [][Next]_vars /\ WF_vars(CycleStep)

\* ------------------------------------- waitForBridgeCredit called on its own

\* The index as a stand-alone call finds it: empty, or one Credit-Notice.
StartNotices ==
  {<<>>} \cup {<<[id |-> 1, quantity |-> ExpectedMario(q), old |-> o]>> :
                 q \in 1..MaxBalance, o \in BOOLEAN}

\* waitForBridgeCredit(recipient, expectedAmount, {maxWaitMs, pollIntervalMs})
\* (bridgeVerifier.js:152-158) with any options, while the bridge may still
\* hold a burn.
InitWait ==
  /\ config = CHOOSE c \in Configs : ~c.dryRun
  /\ targetBal = 0
  /\ botAoBal = 0
  /\ baseArio = 0
  /\ baseUsdc = 0
  /\ allowance = 0
  /\ inTransit \in {<<>>} \cup {<<q>> : q \in 1..MaxBalance}
  /\ notices \in StartNotices
  /\ pc = "wait"
  /\ cycles = 0
  /\ faults = 0
  /\ LocalsInit
  /\ waitFor \in [caller : {"alone"}, expectedAmount : 1..MaxBalance,
                  maxWaitMs : 0..MaxWaitBound, pollIntervalMs : 1..MaxPollBound]
  /\ elapsed = 0
  /\ delayed = 0
  /\ attempts = 0
  /\ waitResult = NoWaitResult
  /\ events = <<>>
  /\ main = MainResident
  /\ slack = SlackIdle
  /\ call = NoCall

NextWait ==
  \/ WaitPoll
  \/ BridgeDeliver

SpecWait == InitWait /\ [][NextWait]_vars

\* ------------------------------------------------------------------- main
\* main() of index.js on its own: validation, initialisation, the startup
\* cycle, the registration of the schedule and the cron triggers.  A cycle is
\* seen from outside: it has been started, it may be suspended in a bridge
\* wait, it has returned.

\* index.js:699  if (!validateConfig(config, logger)) -> exit.
MainExits(valid) == ~valid

\* index.js:708-711  await performTopUp(); then cron.schedule(...): the
\* registration waits for the startup cycle to return.
ScheduleAfter(startupReturned) == startupReturned

\* index.js:711-714  the cron callback calls performTopUp whatever else is
\* in progress: there is no lock and no flag.
TriggerStarts(running) == TRUE

InitMain ==
  /\ config \in LoadedConfigs
  /\ targetBal = 0
  /\ botAoBal = 0
  /\ baseArio = 0
  /\ baseUsdc = FundedUsdc
  /\ allowance = 0
  /\ inTransit = <<>>
  /\ notices = <<>>
  /\ pc = "idle"
  /\ cycles = 0
  /\ faults = 0
  /\ LocalsInit
  /\ WaitInit
  /\ events = <<>>
  /\ main = MainStart
  /\ slack = SlackIdle
  /\ call = NoCall

\* index.js:697-702  validate the configuration; exit(1) when it is invalid.
MainValidate ==
  /\ main.pc = "validate"
  /\ LET valid == validateConfig(config)
     IN main' = IF MainExits(valid)
                  THEN [main EXCEPT !.pc = "exited", !.valid = valid, !.exitCode = 1]
                  ELSE [main EXCEPT !.pc = "initialize", !.valid = valid]
  /\ UNCHANGED <<config, cycleVars, slack, call>>

\* index.js:705, 94-123  initialize(); when it throws, the catch of main
\* (index.js:719-722) exits with code 1.
MainInitialize ==
  /\ main.pc = "initialize"
  /\ \/ main' = [main EXCEPT !.pc = "startup", !.initialized = TRUE]
     \/ main' = [main EXCEPT !.pc = "exited", !.exitCode = 1]
  /\ UNCHANGED <<config, cycleVars, slack, call>>

\* index.js:708  the startup call of performTopUp.
MainStartup ==
  /\ main.pc = "startup"
  /\ main' = [main EXCEPT !.pc = "awaiting", !.started = @ + 1, !.running = @ + 1]
  /\ UNCHANGED <<config, cycleVars, slack, call>>

\* index.js:711-717  cron.schedule: registered once the awaited startup
\* cycle has returned.
MainSchedule ==
  /\ main.pc = "awaiting"
  /\ ScheduleAfter(main.returned >= 1)
  /\ main' = [main EXCEPT !.pc = "resident", !.scheduled = TRUE]
  /\ UNCHANGED <<config, cycleVars, slack, call>>

\* index.js:711-714  one firing of the schedule.
CronTrigger ==
  /\ main.scheduled
  /\ main.pc # "exited"
  /\ main.fired < MaxTriggers
  /\ main' = IF TriggerStarts(main.running)
               THEN [main EXCEPT !.fired = @ + 1, !.started = @ + 1, !.running = @ + 1]
               ELSE [main EXCEPT !.fired = @ + 1]
  /\ UNCHANGED <<config, cycleVars, slack, call>>

\* index.js:374, 616  a cycle in progress reaches await waitForBridgeCredit
\* and yields to the event loop.
MainCycleWaits ==
  /\ main.pc # "exited"
  /\ main.waiting < main.running
  /\ main' = [main EXCEPT !.waiting = @ + 1]
  /\ UNCHANGED <<config, cycleVars, slack, call>>

\* index.js:255-689  a cycle in progress returns, from a bridge wait or
\* from any other step.
MainCycleReturns ==
  /\ main.pc # "exited"
  /\ main.running > 0
  /\ \/ /\ main.waiting > 0
        /\ main' = [main EXCEPT !.running = @ - 1, !.returned = @ + 1,
                                 !.waiting = @ - 1]
     \/ /\ main.running > main.waiting
        /\ main' = [main EXCEPT !.running = @ - 1, !.returned = @ + 1]
  /\ UNCHANGED <<config, cycleVars, slack, call>>

NextMain ==
  \/ MainValidate
  \/ MainInitialize
  \/ MainStartup
  \/ MainSchedule
  \/ CronTrigger
  \/ MainCycleWaits
  \/ MainCycleReturns

SpecMain == InitMain /\ [][NextMain]_vars

\* ---------------------------------------------------------- notifications
\* The notification module on its own: a caller awaits sendMessageToSlack
\* and goes on to its next statement when the call returns.

\* unnamed/part_002 11-14  the client exists when Slack is enabled and a
\* token is set.
SlackClient(enabled, token) == enabled /\ token

\* unnamed/part_002 16-31  sendMessageToSlack: without a client it returns
\* at once; with one it posts, and a failed post is logged in the catch.
sendMessageToSlack(web, postOk) ==
  IF ~web THEN [posted |-> FALSE, logged |-> FALSE, threw |-> FALSE]
  ELSE IF postOk THEN [posted |-> TRUE, logged |-> FALSE, threw |-> FALSE]
  ELSE [posted |-> FALSE, logged |-> TRUE, threw |-> FALSE]

\* The messages index.js sends (index.js:336, 410, 420, 455, 475, 540, 565,
\* 648, 661, 683, and the dry-run summary of sendSwapNotification).
Notifications ==
  {"low_eth", "recovery_complete", "recovery_unverified", "high_price_impact",
   "insufficient_usdc", "balance_check_failed", "burn_failed", "topup_complete",
   "bridge_unverified", "topup_failed", "dry_run_summary"}

InitSlack ==
  /\ config = CHOOSE c \in Configs : ~c.dryRun
  /\ targetBal = 0
  /\ botAoBal = 0
  /\ baseArio = 0
  /\ baseUsdc = FundedUsdc
  /\ allowance = 0
  /\ inTransit = <<>>
  /\ notices = <<>>
  /\ pc = "idle"
  /\ cycles = 0
  /\ faults = 0
  /\ LocalsInit
  /\ WaitInit
  /\ events = <<>>
  /\ main = MainResident
  /\ \E enabled \in BOOLEAN, token \in BOOLEAN :
       slack = [SlackIdle EXCEPT !.web = SlackClient(enabled, token)]
  /\ call = NoCall

\* One awaited call of sendMessageToSlack and the caller's next statement.
SlackSend ==
  /\ slack.calls < MaxSends
  /\ ~slack.threw
  /\ \E kind \in Notifications, postOk \in BOOLEAN :
       LET r == sendMessageToSlack(slack.web, postOk)
       IN slack' = [slack EXCEPT
                      !.calls = @ + 1,
                      !.posted = IF r.posted THEN Append(@, kind) ELSE @,
                      !.logged = IF r.logged THEN @ + 1 ELSE @,
                      !.threw = r.threw,
                      !.continued = IF r.threw THEN @ ELSE @ + 1]
  /\ UNCHANGED <<config, cycleVars, main, call>>

NextSlack == SlackSend

SpecSlack == InitSlack /\ [][NextSlack]_vars

\* --------------------------------------------------- burnToAO on its own
\* BaseBridge.burnToAO(amount, destination, dryRun) (baseBridge.js:203-259)
\* called with any amount against any ARIO balance of the Base wallet.

\* The cycle and its surroundings at rest while a library function is looked
\* at on its own.
AtRest ==
  /\ config = CHOOSE c \in Configs : ~c.dryRun
  /\ targetBal = 0
  /\ botAoBal = 0
  /\ baseArio = 0
  /\ baseUsdc = FundedUsdc
  /\ allowance = 0
  /\ inTransit = <<>>
  /\ notices = <<>>
  /\ pc = "idle"
  /\ cycles = 0
  /\ faults = 0
  /\ LocalsInit
  /\ WaitInit
  /\ events = <<>>
  /\ main = MainResident
  /\ slack = SlackIdle

\* No balance has been read yet.
NoRead == 0 - 1

InitBurn ==
  /\ AtRest
  /\ \E amount \in 1..(MaxBalance + 2), balance \in 0..(MaxBalance + 2), dryRun \in BOOLEAN :
       call = [fn |-> "burnToAO", amount |-> amount, dryRun |-> dryRun,
               balance |-> balance, read |-> NoRead, pc |-> "start",
               submitted |-> FALSE, status |-> NoRead, txHash |-> FALSE]

\* baseBridge.js:214-223  the dry-run return, before anything is read.
BurnEnter ==
  /\ call.fn = "burnToAO"
  /\ call.pc = "start"
  /\ call' = [call EXCEPT !.pc = IF burnDryRunReturn(call.dryRun) THEN "returned"
                                 ELSE "reading"]
  /\ UNCHANGED <<config, cycleVars, main, slack>>

\* baseBridge.js:226-229  getArioBalance, then the comparison with the
\* amount; a read that fails and a balance that does not cover both throw.
BurnRead ==
  /\ call.fn = "burnToAO"
  /\ call.pc = "reading"
  /\ \/ call' = [call EXCEPT !.pc = "threw"]
     \/ call' = [call EXCEPT !.read = call.balance,
                             !.pc = IF BalanceCovers(call.balance, call.amount)
                                      THEN "submit" ELSE "threw"]
  /\ UNCHANGED <<config, cycleVars, main, slack>>

\* baseBridge.js:232  arioContract.burn: the transaction is sent, or the
\* provider refuses it.
BurnSubmit ==
  /\ call.fn = "burnToAO"
  /\ call.pc = "submit"
  /\ \/ call' = [call EXCEPT !.pc = "threw"]
     \/ call' = [call EXCEPT !.submitted = TRUE, !.pc = "pending"]
  /\ UNCHANGED <<config, cycleVars, main, slack>>

\* baseBridge.js:236-254  tx.wait(): the receipt, its status, the throw of a
\* reverted burn or the return of the hash.  The contract reverts a burn the
\* balance does not cover.
BurnReceipt ==
  /\ call.fn = "burnToAO"
  /\ call.pc = "pending"
  /\ \E status \in IF call.balance >= call.amount THEN {0, 1} ELSE {0} :
       call' = [call EXCEPT
                  !.status = status,
                  !.balance = IF status = 1 THEN @ - call.amount ELSE @,
                  !.txHash = BurnConfirmed(status),
                  !.pc = IF BurnConfirmed(status) THEN "returned" ELSE "threw"]
  /\ UNCHANGED <<config, cycleVars, main, slack>>

NextBurn ==
  \/ BurnEnter
  \/ BurnRead
  \/ BurnSubmit
  \/ BurnReceipt

SpecBurn == InitBurn /\ [][NextBurn]_vars

\* ----------------------------------------- conversions to smallest units
\* The quantity transferArioOnAO and burnToAO submit for an amount, for any
\* amount with one decimal digit more than the token has.

\* The decimals a valid configuration gives the target token around the
\* ARIO's own.
TransferDecimals == {ArioBaseDecimals - 1, ArioBaseDecimals, ArioBaseDecimals + 1}

InitQuantity ==
  /\ AtRest
  /\ \E fn \in {"transferArioOnAO", "burnToAO.quantity"}, a \in 0..MaxSubUnits,
        d \in TransferDecimals :
       call = [fn |-> fn, subUnits |-> a,
               decimals |-> IF fn = "transferArioOnAO" THEN d ELSE ArioBaseDecimals,
               pc |-> "start", quantity |-> 0]

\* index.js:207  the Quantity tag of the Transfer message.
TransferConverts ==
  /\ call.fn = "transferArioOnAO"
  /\ call.pc = "start"
  /\ call' = [call EXCEPT !.pc = "converted",
                          !.quantity = TransferQuantity(call.subUnits, call.decimals)]
  /\ UNCHANGED <<config, cycleVars, main, slack>>

\* baseBridge.js:206-208  amountInSmallestUnit.
BurnConverts ==
  /\ call.fn = "burnToAO.quantity"
  /\ call.pc = "start"
  /\ call' = [call EXCEPT !.pc = "converted", !.quantity = BurnQuantity(call.subUnits)]
  /\ UNCHANGED <<config, cycleVars, main, slack>>

NextQuantity == TransferConverts \/ BurnConverts

SpecQuantity == InitQuantity /\ [][NextQuantity]_vars

\* ---------------------------------- checkTargetArioBalance called on its own

\* index.js:138  balanceResult.Messages?.[0]?.Data of a reply that carries
\* no message data.
NoData == 0 - 1

\* index.js:138  parseFloat(Data || '0'): the balance in smallest units.
BalanceData(data) == IF data = NoData THEN 0 ELSE data

\* index.js:139-140  balanceInSmallestUnit / Math.pow(10, decimals).
BalanceInTokens(smallest, decimals) ==
  IF IsNaN(smallest) THEN NaN ELSE smallest \div Pow10(decimals)

\* What the Balance dry-run may carry as data: nothing, or a balance of
\* whole tokens in smallest units.
BalanceDatas(decimals) == {NoData} \cup {b * Pow10(decimals) : b \in 0..(MaxBalance + 1)}

InitBalance ==
  /\ AtRest
  /\ \E c \in Configs : \E data \in BalanceDatas(c.decimals) :
       call = [fn |-> "checkTargetArioBalance", data |-> data, decimals |-> c.decimals,
               minBalance |-> c.minBalance, targetBalance |-> c.targetBalance,
               minTransferAmount |-> c.minTransferAmount, dryRun |-> c.dryRun,
               pc |-> "query", currentBalance |-> 0, amountNeeded |-> 0,
               next |-> "none"]

\* index.js:128-148  checkTargetArioBalance: the dry-run rejects and the
\* error is rethrown, or the data of the reply is parsed and scaled.
BalanceQuery ==
  /\ call.fn = "checkTargetArioBalance"
  /\ call.pc = "query"
  /\ \/ call' = [call EXCEPT !.pc = "threw"]
     \/ call' = [call EXCEPT
                   !.currentBalance = BalanceInTokens(BalanceData(call.data), call.decimals),
                   !.pc = "returned"]
  /\ UNCHANGED <<config, cycleVars, main, slack>>

\* index.js:273-291  what performTopUp makes of the balance: sufficient,
\* or the need and the minimum-transfer check.  A comparison with NaN is
\* false and a difference with NaN is NaN.
BalanceDecide ==
  /\ call.fn = "checkTargetArioBalance"
  /\ call.pc = "returned"
  /\ LET bal == call.currentBalance
         need == IF IsNaN(bal) THEN NaN ELSE AmountNeeded(call.targetBalance, bal)
     IN call' = [call EXCEPT
                   !.pc = "decided",
                   !.amountNeeded = IF ~IsNaN(bal) /\ BalanceSufficient(bal, call.minBalance)
                                      THEN 0 ELSE need,
                   !.next = IF ~IsNaN(bal) /\ BalanceSufficient(bal, call.minBalance)
                              THEN "sufficient"
                            ELSE IF ~IsNaN(need)
                                      /\ BelowMinTransfer(need, call.minTransferAmount)
                              THEN "below_minimum" ELSE "check_bot"]
  /\ UNCHANGED <<config, cycleVars, main, slack>>

NextBalance ==
  \/ BalanceQuery
  \/ BalanceDecide

SpecBalance == InitBalance /\ [][NextBalance]_vars

\* ------------------------------------------- PermaswapDEX called on its own

\* What the dryrun of the pool's Info action gives: it rejects, it carries
\* no message, or it carries a message whose tags may hold PX and PY (0
\* stands for a tag that is missing).
PoolReplies ==
  {[kind |-> "rejects", PX |-> 0, PY |-> 0], [kind |-> "no_messages", PX |-> 0, PY |-> 0]}
    \cup [kind : {"message"}, PX : 0..MaxReserve, PY : 0..MaxReserve]

\* permaswap.js:29-65  getPoolInfo throws when the dryrun rejects or returns
\* no message.
getPoolInfoThrows(reply) == reply.kind \in {"rejects", "no_messages"}

\* permaswap.js:72  !poolInfo.PX || !poolInfo.PY
LacksReserves(reply) == reply.PX = 0 \/ reply.PY = 0

MockPrice == [source |-> "mock", reserveX |-> MockReserveX, reserveY |-> MockReserveY]

\* permaswap.js:67-118  getPrice: the reserves of the pool, and the built-in
\* ones both when the pool information lacks PX or PY (l.72-81) and in the
\* catch of any error (l.106-117).
getPrice(reply) ==
  IF getPoolInfoThrows(reply) THEN MockPrice
  ELSE IF LacksReserves(reply) THEN MockPrice
  ELSE [source |-> "pool", reserveX |-> reply.PX, reserveY |-> reply.PY]

\* toFixed(0) of num / den (bignumber.js rounds half up).
ToFixed0(num, den) == (2 * num + den) \div (2 * den)

\* permaswap.js:179-183 and 292-296  the constant-product output of wUSDC
\* in: reserveY - k / (reserveX + amountIn), as a fraction over
\* reserveX + amountIn.
ProductOutNum(price, amountIn) ==
  price.reserveY * (price.reserveX + amountIn) - price.reserveX * price.reserveY

\* permaswap.js:183  expectedOut of the dry-run branch of executeSwap.
DryRunExpectedOut(price, amountIn) ==
  ToFixed0(ProductOutNum(price, amountIn), price.reserveX + amountIn)

\* permaswap.js:306  amountOut of calculateSwapOutput, after the fee.
CalculatedAmountOut(price, amountIn) ==
  ToFixed0(ProductOutNum(price, amountIn) * FeeKeptPerMille,
           (price.reserveX + amountIn) * 1000)

InitPermaswap ==
  /\ AtRest
  /\ \E fn \in {"getPrice", "calculateSwapOutput", "executeSwap"},
        reply \in PoolReplies, amountIn \in 1..MaxBalance :
       call = [fn |-> fn, pool |-> reply, amountIn |-> amountIn, pc |-> "start",
               priceInfo |-> [source |-> "none", reserveX |-> 0, reserveY |-> 0],
               amountOut |-> 0]

\* permaswap.js:69, 175, 288  the call of getPrice and what it returns.
PermaswapGetPrice ==
  /\ call.fn \in {"getPrice", "calculateSwapOutput", "executeSwap"}
  /\ call.pc = "start"
  /\ call' = [call EXCEPT !.priceInfo = getPrice(call.pool),
                          !.pc = IF call.fn = "getPrice" THEN "returned" ELSE "priced"]
  /\ UNCHANGED <<config, cycleVars, main, slack>>

\* permaswap.js:285-323  calculateSwapOutput from the price information.
PermaswapCalculate ==
  /\ call.fn = "calculateSwapOutput"
  /\ call.pc = "priced"
  /\ call' = [call EXCEPT !.amountOut = CalculatedAmountOut(call.priceInfo, call.amountIn),
                          !.pc = "returned"]
  /\ UNCHANGED <<config, cycleVars, main, slack>>

\* permaswap.js:171-198  the dry-run branch of executeSwap.
PermaswapDryRun ==
  /\ call.fn = "executeSwap"
  /\ call.pc = "priced"
  /\ call' = [call EXCEPT !.amountOut = DryRunExpectedOut(call.priceInfo, call.amountIn),
                          !.pc = "returned"]
  /\ UNCHANGED <<config, cycleVars, main, slack>>

NextPermaswap ==
  \/ PermaswapGetPrice
  \/ PermaswapCalculate
  \/ PermaswapDryRun

SpecPermaswap == InitPermaswap /\ [][NextPermaswap]_vars

\* ------------------------------------- verifyBridgeCredit called on its own

\* bridgeVerifier.js:102  the clock at the call, in seconds.
Now == 2 * MaxAgeSeconds

\* The Credit-Notices the index may hold for the recipient: a quantity at,
\* just inside or just outside the tolerance around the expected amount,
\* and a block timestamp that is missing, exactly maxAge back or one second
\* more.
EdgeQuantities(expectedAmount) ==
  {ExpectedMario(expectedAmount) + d :
     d \in {0 - ToleranceMario(expectedAmount) - 1, 0 - ToleranceMario(expectedAmount),
            0, ToleranceMario(expectedAmount), ToleranceMario(expectedAmount) + 1}}

EdgeTimestamps == {NoTimestamp, Now - MaxAgeSeconds, Now - MaxAgeSeconds - 1}

Edges(expectedAmount) ==
  [quantity : EdgeQuantities(expectedAmount), timestamp : EdgeTimestamps]

\* A recent notice of another amount.
OtherEdge == [quantity |-> 0, timestamp |-> Now - 1]

\* Sequences of at most n elements of S.
RECURSIVE SeqsUpTo(_, _)
SeqsUpTo(S, n) ==
  IF n = 0 THEN {<<>>}
  ELSE LET shorter == SeqsUpTo(S, n - 1)
       IN shorter \cup {Append(q, x) : q \in {r \in shorter : Len(r) = n - 1}, x \in S}

\* bridgeVerifier.js:62-90  the index sorted HEIGHT_DESC: notices of other
\* amounts first (none, one short of a page, or a full page), then the
\* notices of interest.
Indexes(expectedAmount) ==
  {[i \in 1..k |-> OtherEdge] \o tail :
     k \in {0, IndexPageSize - 1, IndexPageSize},
     tail \in SeqsUpTo(Edges(expectedAmount), MaxEdges)}

\* bridgeVerifier.js:105-116  the edges as the loop sees them: the id is the
\* position in the index, and the age test is applied to the timestamp.
Dated(edges) ==
  [i \in DOMAIN edges |-> [id |-> i,
                           quantity |-> edges[i].quantity,
                           old |-> TooOld(edges[i].timestamp, Now, MaxAgeSeconds)]]

InitVerify ==
  /\ AtRest
  /\ \E expectedAmount \in 1..MaxBalance :
       \E index \in Indexes(expectedAmount) :
         call = [fn |-> "verifyBridgeCredit", expectedAmount |-> expectedAmount,
                 index |-> index, pc |-> "query", edges |-> <<>>,
                 found |-> FALSE, transaction |-> 0]

\* bridgeVerifier.js:62-99  the GraphQL query (first: 10): it fails, or it
\* returns the first page of the index; an empty page is reported as not
\* found at once.
VerifyQuery ==
  /\ call.fn = "verifyBridgeCredit"
  /\ call.pc = "query"
  /\ \/ call' = [call EXCEPT !.pc = "threw"]
     \/ LET page == SubSeq(call.index, 1, Min(Len(call.index), IndexPageSize))
        IN call' = [call EXCEPT !.edges = page,
                                !.pc = IF page = <<>> THEN "returned" ELSE "scan"]
  /\ UNCHANGED <<config, cycleVars, main, slack>>

\* bridgeVerifier.js:105-139  the loop over the edges and the two returns.
VerifyScan ==
  /\ call.fn = "verifyBridgeCredit"
  /\ call.pc = "scan"
  /\ LET tx == verifyBridgeCredit(Dated(call.edges), call.expectedAmount)
     IN call' = [call EXCEPT !.found = tx # 0, !.transaction = tx, !.pc = "returned"]
  /\ UNCHANGED <<config, cycleVars, main, slack>>

NextVerify ==
  \/ VerifyQuery
  \/ VerifyScan

SpecVerify == InitVerify /\ [][NextVerify]_vars

\* ------------------------------------------------------------- properties

\* What the log of the cycle shows.
Has(op, kind) == \E i \in DOMAIN events : events[i].op = op /\ events[i].kind = kind

HasOp(op) == \E i \in DOMAIN events : events[i].op = op

\* CheckTarget has read the target balance in this cycle.
TargetRead == Len(events) >= 1 /\ events[1] = Call("query", "target")

\* C1: when the route executeSwap fetches has a price impact above
\* maxSlippage, executeSwap returns success=false with aborted=true and has
\* submitted nothing: no approval, no build request, no swap transaction,
\* in dry-run and live mode alike.
C1_SwapAbortsOnImpact ==
  (route.fetched /\ route.priceImpact > config.maxSlippage)
    => /\ swapResult.called
       /\ ~swapResult.success
       /\ swapResult.aborted
       /\ ~HasOp("approve")
       /\ ~HasOp("build")
       /\ ~HasOp("swap_tx")

C1_Witness ==
  /\ route.fetched
  /\ route.priceImpact > config.maxSlippage
  /\ swapCalc.priceImpact <= config.maxSlippage
  /\ swapResult.aborted
  /\ ~config.dryRun

\* C2: when the price impact calculateUsdcNeeded reports is above
\* config.maxSlippage, the cycle ends there: the high-price-impact alert is
\* the last thing it does after the quote, executeSwap is never called and
\* no burn follows the check.
C2_TopUpStopsOnImpact ==
  swapCalc.priceImpact > config.maxSlippage
    => /\ pc = "done"
       /\ ~swapResult.called
       /\ ~Has("route", "swap")
       /\ ~Has("burn_tx", "post_swap")
       /\ Len(events) >= 2
       /\ events[Len(events)] = Call("slack", "high_price_impact")
       /\ events[Len(events) - 1] = Call("route", "calc")

C2_Witness ==
  /\ swapCalc.priceImpact > config.maxSlippage
  /\ Has("slack", "high_price_impact")
  /\ pc = "done"

\* C3: when the target balance read at the start of a cycle is at least
\* minBalance, the cycle returns at once: the balance read is the only call
\* it has made (no further query, quote, transfer, swap, burn, ledger record
\* or notification), in a first cycle and in a later one.
C3_SufficientReturns ==
  (TargetRead /\ currentBalance >= config.minBalance)
    => pc = "done" /\ Len(events) = 1

C3_Witness ==
  /\ cycles = 2
  /\ TargetRead
  /\ currentBalance >= config.minBalance
  /\ currentBalance > 0
  /\ pc = "done"

\* C4: when the target balance is below minBalance but the amount needed is
\* below minTransferAmount, the cycle returns without querying the bot or
\* the Base wallet and without a transfer, swap, burn or ledger record.
C4_BelowMinTransferReturns ==
  (/\ TargetRead
   /\ currentBalance < config.minBalance
   /\ config.targetBalance - currentBalance < config.minTransferAmount)
    => pc = "done" /\ Len(events) = 1

C4_Witness ==
  /\ TargetRead
  /\ currentBalance < config.minBalance
  /\ config.targetBalance - currentBalance < config.minTransferAmount
  /\ amountNeeded > 0
  /\ pc = "done"

\* C5: every amount transferred on AO or burned on Base (the recovery
\* transfer, the recovery burn, the post-swap burn) is the smaller of the
\* balance observed and the need that remains, and the need is never
\* negative.
C5_AmountsAreMin ==
  \A i \in DOMAIN events :
    events[i].op \in {"ao_transfer", "burn_tx"}
      => /\ events[i].need >= 0
         /\ events[i].amount = Min(events[i].observed, events[i].need)

\* C6: in dry-run mode a cycle sends no AO transfer message, no USDC
\* approval, no swap transaction and no burn transaction, writes no ledger
\* record and never starts polling for a bridge credit.
C6_DryRunSubmitsNothing ==
  config.dryRun
    => \A i \in DOMAIN events :
         events[i].op \notin {"ao_transfer", "approve", "swap_tx", "burn_tx", "csv", "poll"}

C6_Witness ==
  /\ config.dryRun
  /\ pc = "done"
  /\ botAoBalance > 0
  /\ swapResult.dryRun
  /\ burnAmount > 0
  /\ Has("slack", "dry_run_summary")

\* C7: a call of waitForBridgeCredit in which no poll finds a credit and
\* every index query returns gives success=false and transaction=null and
\* does not throw, after at least maxWaitMs and, when the queries take no
\* time, less than maxWaitMs + pollIntervalMs.
C7_WaitTimesOut ==
  (waitFor.caller = "alone" /\ waitResult.returned /\ ~waitResult.success)
    => /\ ~waitResult.threw
       /\ waitResult.transaction = 0
       /\ waitResult.waitTimeMs >= waitFor.maxWaitMs
       /\ delayed = 0
            => waitResult.waitTimeMs < waitFor.maxWaitMs + waitFor.pollIntervalMs

C7_Witness ==
  /\ waitFor.caller = "alone"
  /\ waitResult.returned
  /\ ~waitResult.success
  /\ attempts >= 2
  /\ delayed = 0
  /\ waitResult.waitTimeMs > waitFor.maxWaitMs

\* C8: after a confirmed post-swap burn and its wait for the credit,
\* verified or timed out, the finished cycle has submitted a transfer to the
\* target wallet.
C8_FinalTransfer ==
  \A i \in DOMAIN events :
    (pc = "done" /\ events[i].op = "wait_return" /\ events[i].kind = "post")
      => \E j \in DOMAIN events : j > i /\ events[j].op = "ao_transfer"

\* C9: after a confirmed post-swap burn whose wait has returned, the
\* finished cycle has sent exactly one of the two notifications: the success
\* summary when the credit was verified, the bridge-unverified alert when
\* it was not.
C9_OneNotification ==
  \A i \in DOMAIN events :
    (pc = "done" /\ events[i].op = "wait_return" /\ events[i].kind = "post")
      => /\ Has("slack", "topup_complete") <=> events[i].ok
         /\ Has("slack", "bridge_unverified") <=> ~events[i].ok

\* C10: when the post-swap burn fails, the cycle sends the 'swap succeeded
\* but burn failed' alert and returns: after the failed burn there is the
\* alert and nothing else (no poll, no burn ledger record, no swap, no burn).
C10_BurnFailureStops ==
  \A i \in DOMAIN events :
    (/\ ~events[i].ok
     /\ \/ events[i].op = "burn_tx" /\ events[i].kind = "post_swap"
        \/ events[i].op = "query" /\ events[i].kind = "ario_for_burn")
      => /\ pc = "done"
         /\ Len(events) = i + 1
         /\ events[i + 1] = Call("slack", "burn_failed")
         /\ ~Has("poll", "post")

C10_Witness ==
  /\ pc = "done"
  /\ Has("swap_tx", "usdc_ario")
  /\ \E i \in DOMAIN events :
       events[i].op = "burn_tx" /\ events[i].kind = "post_swap" /\ ~events[i].ok

\* The ARIO burned on Base whose credit has not reached the target wallet.
RECURSIVE SumSeq(_)
SumSeq(q) == IF q = <<>> THEN 0 ELSE Head(q) + SumSeq(Tail(q))

\* C11: a cycle that starts while the credit of an earlier cycle's burn is
\* still on its way does not swap and burn again for the same deficit: when
\* a cycle without a recovery burn has confirmed its post-swap burn, the
\* ARIO on its way to the target wallet is at most the deficit the cycle
\* read.
C11_NoDoubleSpend ==
  (/\ \E i \in DOMAIN events :
        /\ events[i].op = "burn_tx"
        /\ events[i].kind = "post_swap"
        /\ events[i].ok
   /\ ~Has("burn_tx", "recovery"))
    => SumSeq(inTransit) <= config.targetBalance - currentBalance

\* An exception raised inside the recovery transfer (index.js:306-312) or
\* inside the recovery burn block (index.js:352-435), as `events` shows it.
InRecoveryBlock(i) ==
  \/ events[i].kind \in {"bot_for_transfer", "RECOVERY_TRANSFER",
                         "ario_for_recovery_burn", "recovery"}
  \/ /\ events[i].op = "csv"
     /\ events[i].kind = "BASE_BURN"
     /\ i > 1
     /\ events[i - 1].op = "burn_tx"
     /\ events[i - 1].kind = "recovery"

Threw(i) == ~events[i].ok /\ events[i].op # "wait_return"

FailureAlerts == {"topup_failed", "balance_check_failed", "burn_failed"}

AlertEndsCycle(i) ==
  /\ pc = "done"
  /\ Len(events) = i + 1
  /\ events[i + 1].op = "slack"
  /\ events[i + 1].kind \in FailureAlerts

C13_InvalidConfigExits ==
  (main.pc # "validate" /\ ~validateConfig(config))
    => /\ main.pc = "exited"
       /\ main.exitCode # 0
       /\ ~main.initialized
       /\ main.started = 0
       /\ ~main.scheduled
       /\ main.fired = 0

C13_Witness ==
  /\ main.pc = "exited"
  /\ ~main.valid
  /\ ValidationErrors(config) = {"MAX_SLIPPAGE"}

\* C14: on a successful startup exactly one cycle is run at once, and it
\* has returned before the schedule is registered, so that the startup cycle
\* overlaps with no scheduled cycle; from then on every trigger starts one
\* cycle.
C14_StartupThenSchedule ==
  /\ main.scheduled => (main.initialized /\ main.returned >= 1)
  /\ ~main.scheduled => (main.fired = 0 /\ main.started <= 1)
  /\ main.pc \in {"awaiting", "resident"} => main.started = 1 + main.fired
  /\ main.fired = 0 => main.running <= 1

C14_Witness ==
  /\ main.scheduled
  /\ main.fired = MaxTriggers
  /\ main.started = 1 + MaxTriggers
  /\ main.returned = 1

\* C18: overlapping cycles are not prevented: every trigger starts a cycle,
\* also while an earlier cycle is in progress, and every cycle started and
\* not returned is in progress.
C18_NoOverlapGuard ==
  /\ main.started = (IF main.pc \in {"awaiting", "resident"} THEN 1 ELSE 0) + main.fired
  /\ main.running = main.started - main.returned

C18_Witness ==
  /\ main.running >= 2
  /\ main.waiting >= 1
  /\ main.running > main.waiting

\* The rules on the settings, read on numbers: a setting that is not a
\* number satisfies none of them.
RulesHold(c) ==
  /\ ~IsNaN(c.decimals) /\ c.decimals >= 0 /\ c.decimals <= 18
  /\ ~IsNaN(c.minBalance) /\ ~IsNaN(c.targetBalance)
  /\ c.targetBalance >= c.minBalance
  /\ ~IsNaN(c.maxSlippage) /\ c.maxSlippage > 0 /\ c.maxSlippage <= 100
  /\ c.cronFields \in {5, 6}

\* C19: validateConfig returns true only for configurations in which the
\* decimals are within 0..18, targetBalance >= minBalance, maxSlippage is in
\* (0, 100] and the schedule has 5 or 6 fields, whatever the loader
\* produced.
C19_ValidOnlyIfRulesHold ==
  (main.pc # "validate" /\ main.valid) => RulesHold(config)

\* The cycle has its quote and has ended without reaching the end of the
\* flow (the summary of a dry run, of a top-up, or the unverified-bridge
\* alert that follows a confirmed burn).
AbortedAfterQuote ==
  /\ pc = "done"
  /\ Has("route", "calc")
  /\ ~Has("slack", "dry_run_summary")
  /\ ~Has("slack", "topup_complete")
  /\ ~Has("slack", "bridge_unverified")

AbortAlerts == {"insufficient_usdc", "high_price_impact", "topup_failed",
                "balance_check_failed", "burn_failed"}

\* C15: every abort of a cycle after its quote (insufficient USDC, price
\* impact above the ceiling, executeSwap returning success=false, a failed
\* swap, a failed balance read after the swap, a failed burn) ends with an
\* alert: the last thing the cycle did is send one.
C15_EveryAbortAlerts ==
  AbortedAfterQuote
    => /\ events[Len(events)].op = "slack"
       /\ events[Len(events)].kind \in AbortAlerts

\* A transaction of the kind that the cycle has submitted and that was
\* confirmed, as `events` shows it.
Submitted(op, kind) ==
  \E i \in DOMAIN events :
    events[i].op = op /\ events[i].kind = kind /\ events[i].ok

CheckAborted ==
  Has("slack", "insufficient_usdc") \/ Has("slack", "high_price_impact")

\* C16 as stated: when a cycle aborts for insufficient USDC or for price
\* impact above the ceiling, the balances are as the cycle found them: no
\* transfer and no burn has gone through earlier in the cycle.
C16_AbortLeavesBalances ==
  CheckAborted
    => \A i \in DOMAIN events :
         events[i].op \in {"ao_transfer", "burn_tx"} => ~events[i].ok

\* C16: when a cycle aborts for insufficient USDC or for price impact above
\* the ceiling, it has asked for no swap route and submitted no approval, no
\* swap and no post-swap burn, and the USDC balance is the one it read; the
\* only transactions it can have submitted are the recovery transfer and the
\* recovery burn.
C16_AbortLeavesAllButRecovery ==
  CheckAborted
    => /\ pc = "done"
       /\ \A i \in DOMAIN events :
            /\ events[i].op \notin {"approve", "swap_tx", "build"}
            /\ events[i].op \in {"ao_transfer", "burn_tx"} => events[i].kind = "recovery"
            /\ ~(events[i].op = "route" /\ events[i].kind = "swap")
       /\ baseUsdc = baseBalances.usdc

C16_Witness ==
  /\ Has("slack", "insufficient_usdc")
  /\ Submitted("burn_tx", "recovery")
  /\ Submitted("ao_transfer", "recovery")

\* C17 as stated: the USDC check comes before the price-impact gate: a
\* cycle whose quote asks for more USDC than the wallet holds ends with the
\* insufficient-funds alert, and the gate has rejected only quotes the
\* wallet could pay.
C17_FundsCheckedFirst ==
  /\ (pc = "done" /\ InsufficientUsdc(baseBalances.usdc, swapCalc.usdcNeeded))
       => Has("slack", "insufficient_usdc")
  /\ Has("slack", "high_price_impact")
       => ~InsufficientUsdc(baseBalances.usdc, swapCalc.usdcNeeded)

\* C17: after the quote the price-impact gate comes first and the USDC check
\* second: a quote above the ceiling ends the cycle with the price-impact
\* alert whatever the USDC balance, the insufficient-funds alert is sent only
\* for a quote within the ceiling that the wallet cannot pay, and executeSwap
\* is called only when both checks have passed.
C17_GateThenFunds ==
  LET high == TopUpGate(swapCalc.priceImpact, config.maxSlippage)
      short == InsufficientUsdc(baseBalances.usdc, swapCalc.usdcNeeded)
  IN /\ (pc = "done" /\ swapCalc.usdcNeeded > 0 /\ high)
          => (Has("slack", "high_price_impact") /\ ~Has("slack", "insufficient_usdc"))
     /\ (pc = "done" /\ swapCalc.usdcNeeded > 0 /\ ~high /\ short)
          => Has("slack", "insufficient_usdc")
     /\ Has("slack", "insufficient_usdc") => (~high /\ short)
     /\ Has("route", "swap") => (~high /\ ~short)

C17_Witness ==
  /\ Has("slack", "high_price_impact")
  /\ InsufficientUsdc(baseBalances.usdc, swapCalc.usdcNeeded)

\* C20: sendMessageToSlack never throws: without a client nothing is sent
\* and nothing is logged, with a client every call either posts or logs the
\* failure, and after every call the caller goes on to its next statement.
C20_BestEffort ==
  /\ ~slack.threw
  /\ slack.continued = slack.calls
  /\ ~slack.web => (slack.posted = <<>> /\ slack.logged = 0)
  /\ slack.web => Len(slack.posted) + slack.logged = slack.calls

C20_Witness ==
  /\ slack.web
  /\ slack.calls = MaxSends
  /\ slack.logged >= 1
  /\ slack.continued = MaxSends
  /\ Len(slack.posted) >= 1

\* C21: in live mode burnToAO submits the burn only after a balance read of
\* its own that covers the amount; it returns a transaction hash only for a
\* receipt of status 1, and a reverted receipt makes it throw.
C21_BurnChecksThenConfirms ==
  (call.fn = "burnToAO" /\ ~call.dryRun)
    => /\ call.submitted => (call.read # NoRead /\ call.read >= call.amount)
       /\ (call.pc = "threw" /\ call.read # NoRead /\ call.read < call.amount)
            => ~call.submitted
       /\ call.txHash => (call.pc = "returned" /\ call.submitted /\ call.status = 1)
       /\ (call.pc = "returned") => call.txHash
       /\ call.status = 0 => (call.pc = "threw" /\ ~call.txHash)

C21_Witness ==
  /\ call.fn = "burnToAO"
  /\ call.pc = "returned"
  /\ call.txHash
  /\ call.read = call.amount

\* The position in `events` of the one call with this op and kind that the
\* cycle has made and that succeeded before position i.
Before(i, op, kind) ==
  \E j \in 1..(i - 1) :
    events[j].op = op /\ events[j].kind = kind /\ events[j].ok

\* The transactions the Base wallet signs.
BaseSubmissions == {"approve", "swap_tx", "burn_tx"}

\* C22: the steps of a cycle are sequential: a quote is requested only once
\* the target balance is read and a need remains, the swap is submitted only
\* after the route of executeSwap passed the gate, the post-swap burn only
\* after the swap was confirmed, the polling for a credit only after the
\* burn it waits for was confirmed, and the Base wallet submits a transaction
\* only once its earlier ones have their receipts: each kind at most once,
\* in the order recovery burn, approval, swap, burn.
C22_StepsInOrder ==
  \A i \in DOMAIN events :
    LET e == events[i]
    IN /\ e.op = "route" => (Before(i, "query", "target") /\ remainingNeeded > 0)
       /\ e.op = "swap_tx"
            => /\ Before(i, "route", "swap")
               /\ route.fetched
               /\ route.priceImpact <= config.maxSlippage
       /\ (e.op = "burn_tx" /\ e.kind = "post_swap") => Before(i, "swap_tx", "usdc_ario")
       /\ (e.op = "poll" /\ e.kind = "post") => Before(i, "burn_tx", "post_swap")
       /\ (e.op = "poll" /\ e.kind = "recovery") => Before(i, "burn_tx", "recovery")
       /\ e.op \in BaseSubmissions
            => \A j \in 1..(i - 1) :
                 events[j].op \in BaseSubmissions
                   => \/ events[j].op = "burn_tx" /\ events[j].kind = "recovery"
                              /\ ~(e.op = "burn_tx" /\ e.kind = "recovery")
                      \/ events[j].ok /\ events[j].op = "approve" /\ e.op # "approve"
                      \/ events[j].ok /\ events[j].op = "swap_tx" /\ e.op = "burn_tx"

C22_Witness ==
  /\ pc = "wait"
  /\ waitFor.caller = "post"
  /\ Has("poll", "post")
  /\ Submitted("approve", "usdc")
  /\ Submitted("burn_tx", "recovery")

\* C23: the quantity submitted for an amount is rounded down: in smallest
\* units it never exceeds amount x 10^decimals, and it is less than one
\* smallest unit below it.
C23_QuantityRoundsDown ==
  (call.fn \in {"transferArioOnAO", "burnToAO.quantity"} /\ call.pc = "converted")
    => /\ call.quantity * Pow10(SubUnitDigits) <= call.subUnits * Pow10(call.decimals)
       /\ (call.quantity + 1) * Pow10(SubUnitDigits) > call.subUnits * Pow10(call.decimals)

C23_Witness ==
  /\ call.fn = "burnToAO.quantity"
  /\ call.pc = "converted"
  /\ call.quantity = 1
  /\ call.subUnits = 19

\* C24: a quote that is not available (the aggregator's answer is not OK,
\* has a non-zero code or no routeSummary) ends the cycle with the failure
\* alert: the alert is the next and the last thing the cycle does, so that
\* no approval, swap or burn follows the failed quote.
C24_QuoteUnavailableAborts ==
  \A i \in DOMAIN events :
    (events[i].op = "route" /\ ~events[i].ok)
      => /\ pc = "done"
         /\ Len(events) = i + 1
         /\ events[i + 1] = Call("slack", "topup_failed")
         /\ ~swapResult.called

C24_Witness ==
  /\ pc = "done"
  /\ Len(events) > 1
  /\ events[Len(events) - 1] = FailedCall("route", "swap")
  /\ events[Len(events)] = Call("slack", "topup_failed")
  /\ Submitted("burn_tx", "recovery")

\* A bridge-credit poll loop is within its ceiling: the clock has advanced
\* by the poll interval for every poll that found nothing, and the last poll
\* started before maxWaitMs had elapsed.
WaitWithinCeiling ==
  pc = "wait"
    => /\ elapsed >= attempts * waitFor.pollIntervalMs
       /\ attempts > 0 => (attempts - 1) * waitFor.pollIntervalMs < waitFor.maxWaitMs

\* How many bridge-credit waits the cycle has started.
WaitsStarted ==
  Cardinality({i \in DOMAIN events : events[i].op = "poll" /\ events[i].ok})
    + Cardinality({i \in DOMAIN events :
                     /\ events[i].op = "poll"
                     /\ ~events[i].ok
                     /\ \A j \in 1..(i - 1) :
                          ~(events[j].op = "poll" /\ events[j].kind = events[i].kind)})

\* C25: every cycle terminates when each external call returns or fails: a
\* cycle under way reaches its end; its only loops are the bridge-credit
\* polls, each one within its maxWaitMs ceiling, and it runs at most two of
\* them, one after a recovery burn and one after the post-swap burn.
C25_CycleTerminates ==
  /\ [][WaitWithinCeiling' /\ WaitsStarted' <= 2]_vars
  /\ (pc \notin {"idle", "done"}) ~> (pc = "done")

C25_Witness ==
  /\ pc = "done"
  /\ Has("wait_return", "recovery")
  /\ Has("wait_return", "post")
  /\ ~waitResult.success
  /\ WaitsStarted = 2

\* C26: executeSwap fails in two ways and succeeds in one.  A failed
\* approval is the last thing the call does: no route is built, no swap is
\* sent, and the error ends the cycle with the failure alert.  A swap whose
\* receipt is not confirmed makes the call throw as well, so that no result
\* is returned.  A live result with success set comes from a confirmed swap
\* transaction only.
C26_SwapFailureModes ==
  /\ \A i \in DOMAIN events :
       (events[i].op = "approve" /\ ~events[i].ok)
         => /\ AlertEndsCycle(i)
            /\ ~swapResult.called
            /\ \A j \in DOMAIN events : events[j].op \notin {"build", "swap_tx"}
  /\ \A i \in DOMAIN events :
       (events[i].op = "swap_tx" /\ ~events[i].ok)
         => /\ AlertEndsCycle(i)
            /\ ~swapResult.called
  /\ (swapResult.called /\ swapResult.success /\ ~swapResult.dryRun)
       => \E i \in DOMAIN events : events[i].op = "swap_tx" /\ events[i].ok

C26_Witness ==
  /\ pc = "done"
  /\ Len(events) > 3
  /\ events[Len(events) - 3] = Ev("approve", "usdc", MaxUint, 0, 0, TRUE)
  /\ events[Len(events) - 1].op = "swap_tx"
  /\ ~events[Len(events) - 1].ok
  /\ events[Len(events)] = Call("slack", "topup_failed")
  /\ ~swapResult.called

\* The step submits an approval (confirmed or not).
ApprovalSubmitted ==
  \E i \in DOMAIN events' : i > Len(events) /\ events'[i].op = "approve"

\* C27: ensureAllowance is idempotent.  An approval is submitted only when
\* the allowance read is below the amount needed, a confirmed approval sets
\* the allowance to the maximum, nothing else changes it, and once it stands
\* at the maximum a later call submits no approval.
C27_AllowanceIdempotent ==
  [][/\ ApprovalSubmitted => (pc = "swap" /\ allowance < swapCalc.usdcNeeded)
     /\ allowance' # allowance => (ApprovalSubmitted /\ allowance' = MaxUint)
     /\ allowance = MaxUint => (~ApprovalSubmitted /\ allowance' = MaxUint)]_vars

C27_Witness ==
  /\ cycles = 2
  /\ allowance = MaxUint
  /\ \E i \in DOMAIN events : events[i].op = "swap_tx" /\ events[i].ok
  /\ Has("query", "allowance")
  /\ \A i \in DOMAIN events : events[i].op # "approve"

\* C28: executeSwap works from the route it requested itself.  The gate
\* decides on that route's price impact, the transaction that is built
\* encodes that route, and the result reports that route's figures; the
\* quote calculateUsdcNeeded obtained earlier is not the one submitted.
C28_SwapUsesOwnRoute ==
  /\ swapResult.called
       => /\ route.fetched
          /\ swapResult.priceImpact = route.priceImpact
          /\ swapResult.aborted <=> route.priceImpact > config.maxSlippage
          /\ swapResult.success => swapResult.expectedAmountOut = route.amountOut
  /\ \A i \in DOMAIN events :
       events[i].op = "build"
         => /\ Before(i, "route", "swap")
            /\ route.fetched
            /\ events[i].observed = route.priceImpact
            /\ events[i].need = route.amountOut
            /\ route.priceImpact <= config.maxSlippage

C28_Witness ==
  /\ pc = "post_swap"
  /\ swapResult.success
  /\ ~swapResult.dryRun
  /\ route.amountOut # remainingNeeded
  /\ \E i \in DOMAIN events :
       /\ events[i].op = "build"
       /\ events[i].need = route.amountOut
       /\ events[i].ok

\* The notice at position i of the index satisfies what verifyBridgeCredit
\* is said to look for.
CreditAt(i) ==
  LET e == call.index[i]
      expected == call.expectedAmount * MarioPerArio
      tolerance == (expected * TolerancePercent) \div 100
  IN /\ e.quantity >= expected - tolerance
     /\ e.quantity <= expected + tolerance
     /\ e.timestamp = NoTimestamp \/ Now - e.timestamp <= MaxAgeMinutes * 60

\* C29: verifyBridgeCredit reports found exactly when one of the at most ten
\* most recent Credit-Notices has a quantity within the tolerance around the
\* expected amount and is not older than maxAgeMinutes; a notice outside
\* the tolerance or too old is never the one reported, and a matching
\* notice without a block timestamp is accepted.
C29_FoundIffRecentMatch ==
  (call.fn = "verifyBridgeCredit" /\ call.pc = "returned")
    => /\ call.found
            <=> \E i \in 1..Min(Len(call.index), IndexPageSize) : CreditAt(i)
       /\ call.found
            => /\ call.transaction \in 1..Min(Len(call.index), IndexPageSize)
               /\ CreditAt(call.transaction)

C29_Witness ==
  /\ call.fn = "verifyBridgeCredit"
  /\ call.pc = "returned"
  /\ call.found
  /\ call.transaction = IndexPageSize
  /\ call.index[call.transaction].timestamp = NoTimestamp
  /\ Len(call.index) > IndexPageSize

\* C30: in live mode the amount burned after a swap is the smaller of the
\* ARIO balance on Base, read after the swap was confirmed, and the
\* remaining need; the output the swap quoted has no part in it.
C30_BurnSizedFromBalance ==
  (pc = "burn" /\ ~config.dryRun)
    => /\ \E i \in DOMAIN events : events[i].op = "swap_tx" /\ events[i].ok
       /\ events[Len(events)] = Call("query", "base_ario")
       /\ postSwapArioBalance = baseArio
       /\ burnAmount = IF baseArio < remainingNeeded THEN baseArio ELSE remainingNeeded

C30_Witness ==
  /\ pc = "burn"
  /\ ~config.dryRun
  /\ swapResult.expectedAmountOut >= remainingNeeded
  /\ baseArio < remainingNeeded
  /\ burnAmount = baseArio

\* The steps of a cycle that change a balance or take long: a confirmed
\* transfer or burn, and a bridge wait that has returned.
ChangesOrWaits(e) ==
  \/ e.op \in {"ao_transfer", "burn_tx"} /\ e.ok
  \/ e.op = "wait_return"

\* C31: the USDC balance compared with usdcNeeded in the insufficient-funds
\* decision is one queried after every state-changing or long-waiting step
\* of the cycle that precedes the decision: between the Base balance query
\* and the quote the decision follows there is no transfer, burn or bridge
\* wait.
C31_FundsDecisionFresh ==
  \A i \in DOMAIN events :
    (events[i].op = "route" /\ events[i].kind = "calc" /\ events[i].ok)
      => \E j \in 1..(i - 1) :
           /\ events[j] = Call("query", "base")
           /\ \A k \in (j + 1)..(i - 1) : ~ChangesOrWaits(events[k])

\* How many times the cycle has submitted the given operation.
Submissions(op, kind) ==
  Cardinality({i \in DOMAIN events : events[i].op = op /\ events[i].kind = kind})

\* C32: no step is retried inside a cycle: one performTopUp submits at most
\* one recovery transfer, one recovery burn, one approval, one swap
\* transaction and one post-swap burn, and asks for each quote at most once.
C32_NoRetryInCycle ==
  /\ Submissions("ao_transfer", "recovery") <= 1
  /\ Submissions("burn_tx", "recovery") <= 1
  /\ Submissions("approve", "usdc") <= 1
  /\ Submissions("swap_tx", "usdc_ario") <= 1
  /\ Submissions("burn_tx", "post_swap") <= 1
  /\ Submissions("route", "calc") <= 1
  /\ Submissions("route", "swap") <= 1
  /\ \A i \in DOMAIN events :
       events[i].op \in {"ao_transfer", "burn_tx", "swap_tx"}
         => <<events[i].op, events[i].kind>>
              \in {<<"ao_transfer", "recovery">>, <<"burn_tx", "recovery">>,
                   <<"swap_tx", "usdc_ario">>, <<"burn_tx", "post_swap">>}

C32_Witness ==
  /\ pc = "done"
  /\ Submissions("ao_transfer", "recovery") = 1
  /\ Submissions("burn_tx", "recovery") = 1
  /\ Submissions("swap_tx", "usdc_ario") = 1
  /\ Submissions("burn_tx", "post_swap") = 1
  /\ Has("wait_return", "post")

\* Event i of the cycle touches the Base chain or the swap aggregator.
OnBase(i) ==
  \/ events[i].op \in {"route", "approve", "build", "swap_tx", "burn_tx", "poll"}
  \/ events[i].op = "query"
       /\ events[i].kind \in {"base", "allowance", "base_ario",
                              "ario_for_recovery_burn", "ario_for_burn"}

\* In a live cycle the recovery transfer is attempted when the bot AO wallet
\* holds ARIO, and the recovery burn when the Base wallet holds ARIO,
\* before any quote is requested or any swap is submitted.
RecoveryAttemptedFirst ==
  ~config.dryRun
    => \A i \in DOMAIN events :
         events[i].op \in {"route", "swap_tx"}
           => /\ botAoBalance > 0
                   => \E j \in 1..(i - 1) : events[j].kind = "bot_for_transfer"
              /\ baseBalances.ario > 0
                   => \E j \in 1..(i - 1) : events[j].kind = "ario_for_recovery_burn"

\* C33: recovery precedes new acquisition: in a live cycle the recovery
\* transfer and the recovery burn are attempted before any quote or swap,
\* and when the recovery transfer alone covers the need (the transfer of the
\* whole need was sent to the target wallet) the cycle ends without touching
\* the Base chain.
C33_RecoveryBeforeAcquisition ==
  /\ RecoveryAttemptedFirst
  /\ \A i \in DOMAIN events :
       (events[i].op = "ao_transfer" /\ events[i].ok /\ events[i].amount >= amountNeeded)
         => \A j \in DOMAIN events : ~OnBase(j)

\* Event i is a confirmed recovery burn of at least the remaining need.
RecoveryBurnCovers(i) ==
  /\ events[i].op = "burn_tx"
  /\ events[i].kind = "recovery"
  /\ events[i].ok
  /\ events[i].amount >= events[i].need

\* C34: when a confirmed recovery burn covers the whole remaining need, the
\* cycle requests no quote and submits no swap, and it ends with exactly one
\* notification after the burn: the recovery-complete message if the bridge
\* credit was verified, the burn-succeeded-but-unverified alert otherwise.
C34_CoveringRecoveryBurnEnds ==
  \A i \in DOMAIN events :
    RecoveryBurnCovers(i)
      => /\ \A j \in DOMAIN events :
              events[j].op \notin {"route", "approve", "build", "swap_tx"}
         /\ pc = "done"
              => LET sent == {j \in DOMAIN events : j > i /\ events[j].op = "slack"}
                 IN /\ Cardinality(sent) = 1
                    /\ \A j \in sent :
                         /\ j = Len(events)
                         /\ events[j].kind =
                              IF \E k \in DOMAIN events :
                                   /\ events[k].op = "wait_return"
                                   /\ events[k].kind = "recovery"
                                   /\ events[k].ok
                                THEN "recovery_complete" ELSE "recovery_unverified"

\* C35: when the swap is confirmed but the ARIO balance read on Base that
\* follows fails, the cycle does not raise and does not swap again: the
\* 'swap succeeded but balance check failed' alert is the next and the last
\* thing it does, and no burn is submitted.
C35_BalanceReadFailureAlerts ==
  \A i \in DOMAIN events :
    events[i] = FailedCall("query", "base_ario")
      => /\ pc = "done"
         /\ Len(events) = i + 1
         /\ events[i + 1] = Call("slack", "balance_check_failed")
         /\ \E j \in 1..(i - 1) : events[j].op = "swap_tx" /\ events[j].ok
         /\ Cardinality({j \in DOMAIN events : events[j].op = "swap_tx"}) = 1
         /\ \A j \in DOMAIN events :
              ~(events[j].op = "burn_tx" /\ events[j].kind = "post_swap")

C35_Witness ==
  /\ pc = "done"
  /\ Len(events) > 2
  /\ events[Len(events) - 1] = FailedCall("query", "base_ario")
  /\ events[Len(events)] = Call("slack", "balance_check_failed")
  /\ swapResult.success
  /\ baseArio > 0

\* C36: PermaswapDEX.getPrice returns only reserves the pool reported: a
\* call of getPrice, calculateSwapOutput or the dry-run branch of
\* executeSwap that has a price or an output has it from a pool reply that
\* carried both reserves, and these are the reserves it used.
C36_PriceOnlyFromPool ==
  (call.fn \in {"getPrice", "calculateSwapOutput", "executeSwap"}
     /\ call.pc \in {"priced", "returned"})
    => /\ call.pool.kind = "message"
       /\ call.pool.PX # 0
       /\ call.pool.PY # 0
       /\ call.priceInfo.reserveX = call.pool.PX
       /\ call.priceInfo.reserveY = call.pool.PY

\* The step is a recovery transfer in which transferArioOnAO throws.
RecoveryTransferThrows ==
  /\ pc = "recovery_transfer"
  /\ \E i \in DOMAIN events' : i > Len(events) /\ ~events'[i].ok

\* C37: a failed recovery transfer does not abort the cycle: when
\* transferArioOnAO throws during recovery (its own balance check included)
\* no alert is sent, remainingNeeded keeps the value it had before the
\* attempt, and the cycle goes on to the Base-chain steps, which are sized
\* for that unreduced need.
C37_FailedRecoveryTransferSwallowed ==
  /\ [][RecoveryTransferThrows
          => /\ remainingNeeded' = remainingNeeded
             /\ remainingNeeded' = amountNeeded
             /\ pc' = "check_base"
             /\ \A i \in DOMAIN events' : events'[i].op # "slack"]_vars
  /\ [](\A i \in DOMAIN events :
          (~events[i].ok
             /\ (events[i].kind \in {"bot_for_transfer", "RECOVERY_TRANSFER"}
                   \/ events[i].op = "ao_transfer"))
            => \A j \in DOMAIN events :
                 (events[j].op = "burn_tx" /\ events[j].kind = "recovery")
                   => events[j].need = amountNeeded)

C37_Witness ==
  /\ pc = "swap"
  /\ \E i \in DOMAIN events : events[i] = FailedCall("query", "bot_for_transfer")
  /\ Has("query", "base")
  /\ remainingNeeded = amountNeeded
  /\ swapCalc.usdcNeeded > 0

\* C38: whenever a recovery burn has been confirmed on Base in a cycle, the
\* remaining need that sizes a later swap of that cycle has been reduced by
\* the burned amount, also when the ledger write or the bridge-credit
\* polling after the confirmed burn fails.
C38_ConfirmedBurnReducesNeed ==
  \A i \in DOMAIN events :
    (events[i].op = "burn_tx" /\ events[i].kind = "recovery" /\ events[i].ok)
      => \A j \in DOMAIN events :
           (j > i /\ events[j].op = "route")
             => remainingNeeded = IF events[i].need > events[i].amount
                                    THEN events[i].need - events[i].amount ELSE 0

\* C39: a balance reply that carries no message data is read as a zero
\* balance, not as a failure of the query: checkTargetArioBalance returns 0,
\* and the cycle takes the target for fully deficient, with the whole
\* targetBalance as the need.
C39_NoDataIsZeroBalance ==
  (call.fn = "checkTargetArioBalance" /\ call.data = NoData)
    => /\ call.pc \in {"returned", "decided"} => call.currentBalance = 0
       /\ call.pc = "decided"
            => /\ call.next # "sufficient"
               /\ call.amountNeeded = call.targetBalance

C39_Witness ==
  /\ call.fn = "checkTargetArioBalance"
  /\ call.data = NoData
  /\ call.pc = "decided"
  /\ call.currentBalance = 0
  /\ call.next = "check_bot"
  /\ call.amountNeeded = MaxBalance

\* C40: a bridge verification success refers to the burn being verified:
\* when waitForBridgeCredit returns success to the cycle, the credit of the
\* burn it was called for has been delivered, so that the success never
\* rests on an earlier credit to the same recipient while the burn's own
\* credit is still on its way.
C40_SuccessIsThisBurn ==
  (pc \in {"recovery_verified", "post_verified"} /\ waitResult.success)
    => inTransit = <<>>

====
